---- MODULE Spec2Model ----
(***************************************************************************)
(* Model of the field-resolution and relationship-graph subsystem of the   *)
(* help-center automation:                                                 *)
(*   - services/relationship_service.py  (edge maps, propagation)          *)
(*   - services/workflow.py              (execute / execute_update)        *)
(*   - services/google_sheets_service.py (the ledger client)               *)
(*   - services/intercom_service.py      (the publisher client, retries)   *)
(*   - services/chatgpt_service.py       (extract_field_names)             *)
(*   - services/data_field_analyzer.py   (_generate_context_tree)          *)
(*   - services/html_formatter.py        (documents, section injection)    *)
(*                                                                         *)
(* Text is a sequence of atoms.  The characters of names (field names,     *)
(* chart titles, article titles) are one-character strings; markup and     *)
(* URLs are atoms of their own, so a name never matches inside markup.     *)
(***************************************************************************)
EXTENDS Integers, Sequences, FiniteSets, TLC

VARIABLES
    \* ---- workflow (execute / execute_update) and relationship service
    pc,              \* position of the workflow run
    mode,            \* "execute" | "update" | "preview"
    runs,            \* runs started so far
    faults,          \* external failures injected so far
    article,         \* title of the article of the current run
    todo,            \* charts of the article not yet processed
    processed,       \* processed_charts
    skipped,         \* skipped_charts
    article_intercom_url,
    f2c,             \* field_to_charts_map
    c2a,             \* chart_to_articles_map
    work,            \* fields_to_update (list of items) / all_charts
    updated,         \* updated_count of the running propagation
    failed,          \* failed_count of the running propagation
    outcomes,        \* per object of the running propagation: what was done
    built,           \* maps the current run has built: <<map, keys whose ledger query failed>>
    all_comparisons, \* all_comparisons of a preview run
    chart_library,   \* ledger sheet of charts
    data_dict,       \* ledger sheet of data fields
    article_library, \* ledger sheet of articles
    intercom,        \* publisher: article id -> body
    uses,            \* history: <<chart title, field>> logged to chart ledger
    \* ---- publisher request with retry
    rq,
    \* ---- extract_field_names
    ex,
    \* ---- _generate_context_tree
    tr,
    \* ---- functions of one text: the call, then its result
    fn

wfvars == <<pc, mode, runs, faults, article, todo, processed, skipped,
            article_intercom_url, f2c, c2a, work, updated, failed, outcomes, built, all_comparisons,
            chart_library, data_dict, article_library, intercom, uses>>
vars == <<wfvars, rq, ex, tr, fn>>

-----------------------------------------------------------------------------
(* Text helpers                                                            *)

\* Python: p in s
Contains(s, p) ==
    \E i \in 0..(Len(s) - Len(p)) : SubSeq(s, i + 1, i + Len(p)) = p

RECURSIVE LStrip(_)
LStrip(s) == IF s # <<>> /\ Head(s) = " " THEN LStrip(Tail(s)) ELSE s

RECURSIVE RStrip(_)
RStrip(s) ==
    IF s # <<>> /\ s[Len(s)] = " " THEN RStrip(SubSeq(s, 1, Len(s) - 1)) ELSE s

\* Python: s.strip()
Strip(s) == RStrip(LStrip(s))


Range(s) == {s[i] : i \in DOMAIN s}

\* Python: c.lower()
LowerChar(c) ==
    CASE c = "A" -> "a"
      [] c = "B" -> "b"
      [] c = "C" -> "c"
      [] c = "D" -> "d"
      [] c = "E" -> "e"
      [] c = "F" -> "f"
      [] c = "G" -> "g"
      [] c = "H" -> "h"
      [] c = "I" -> "i"
      [] c = "J" -> "j"
      [] c = "K" -> "k"
      [] c = "L" -> "l"
      [] c = "M" -> "m"
      [] c = "N" -> "n"
      [] c = "O" -> "o"
      [] c = "P" -> "p"
      [] c = "Q" -> "q"
      [] c = "R" -> "r"
      [] c = "S" -> "s"
      [] c = "T" -> "t"
      [] c = "U" -> "u"
      [] c = "V" -> "v"
      [] c = "W" -> "w"
      [] c = "X" -> "x"
      [] c = "Y" -> "y"
      [] c = "Z" -> "z"
      [] OTHER -> c

Lower(s) == [i \in DOMAIN s |-> LowerChar(s[i])]

RECURSIVE RemoveChars(_, _)
\* Python: s.replace(c, '') for every c of cs
RemoveChars(s, cs) ==
    IF s = <<>> THEN <<>>
    ELSE IF Head(s) \in cs THEN RemoveChars(Tail(s), cs)
    ELSE <<Head(s)>> \o RemoveChars(Tail(s), cs)

NoneWord == <<"n", "o", "n", "e">>

-----------------------------------------------------------------------------
(* The ledger: services/google_sheets_service.py                           *)
(* A sheet is a list of rows [orig, human, url, id, html]; id 0 and url "" *)
(* stand for an empty cell.                                                *)

Row(o, h, u, i, x) == [orig |-> o, human |-> h, url |-> u, id |-> i, html |-> x]

\* index of the first row whose first column is the name, 0 when none
FirstRow(sheet, name) ==
    IF \E i \in DOMAIN sheet : Strip(sheet[i].orig) = name
    THEN CHOOSE i \in DOMAIN sheet :
            /\ Strip(sheet[i].orig) = name
            /\ \A j \in 1..(i - 1) : Strip(sheet[j].orig) # name
    ELSE 0

\* as CheckDuplicate, but no name is ever found
CheckDuplicateNever(sheet, lookup_name) ==
    [exists |-> FALSE, human_name |-> <<>>, intercom_url |-> ""]

\* check_duplicate: first-column match on the stripped name
CheckDuplicate(sheet, lookup_name) ==
    LET i == FirstRow(sheet, Strip(lookup_name)) IN
    IF i = 0 THEN [exists |-> FALSE, human_name |-> <<>>, intercom_url |-> ""]
    ELSE [exists |-> TRUE, human_name |-> Strip(sheet[i].human),
          intercom_url |-> sheet[i].url]

\* lookup_article_by_title: the first matching row's id, url and html
LookupArticleByTitle(sheet, article_title) ==
    LET i == FirstRow(sheet, Strip(article_title)) IN
    IF i = 0
    THEN [exists |-> FALSE, intercom_id |-> 0, intercom_url |-> "", html |-> <<>>]
    ELSE [exists |-> TRUE, intercom_id |-> sheet[i].id,
          intercom_url |-> sheet[i].url, html |-> sheet[i].html]

\* the ledger's upsert_row: the row of that original name is replaced in
\* place, a new name is appended
UpsertRow(sheet, r) ==
    LET i == FirstRow(sheet, r.orig) IN
    IF i = 0 THEN Append(sheet, r) ELSE [sheet EXCEPT ![i] = r]

\* log_processed_item: the payload is the stripped names and the html
LogProcessedItem(sheet, original_name, human_name, intercom_url, intercom_id, html) ==
    UpsertRow(sheet, Row(Strip(original_name), Strip(human_name),
                         intercom_url, intercom_id, html))

\* batch_lookup: lookup_map is built over all rows, a later row of the same
\* name overwrites an earlier one; a missing name gives empty strings
BatchLookupOne(sheet, item) ==
    LET hits == {i \in DOMAIN sheet : Strip(sheet[i].orig) = Strip(item)} IN
    IF hits = {} THEN [human |-> <<>>, url |-> ""]
    ELSE LET i == CHOOSE k \in hits : \A j \in hits : j <= k IN
         [human |-> Strip(sheet[i].human), url |-> sheet[i].url]

RECURSIVE RelatedRows(_, _)
\* the rows whose html column contains the text, as {title, url} edges
RelatedRows(sheet, text) ==
    IF sheet = <<>> THEN <<>>
    ELSE (IF Contains(Head(sheet).html, text)
          THEN <<[title |-> Strip(Head(sheet).human), url |-> Head(sheet).url]>>
          ELSE <<>>) \o RelatedRows(Tail(sheet), text)

\* get_related_charts_for_field; ok = FALSE is a failed sheet request
GetRelatedChartsForField(sheet, field_name, ok) ==
    IF ok THEN [status |-> "success", related |-> RelatedRows(sheet, field_name)]
    ELSE [status |-> "error", related |-> <<>>]

\* get_related_articles_for_chart
GetRelatedArticlesForChart(sheet, chart_title, ok) ==
    IF ok THEN [status |-> "success", related |-> RelatedRows(sheet, chart_title)]
    ELSE [status |-> "error", related |-> <<>>]

-----------------------------------------------------------------------------
(* Documents: services/html_formatter.py                                   *)

\* self.spacer = '<p>&nbsp;</p>'
Spacer == <<"<p>", "&nbsp;", "</p>">>

RCMarker == "<strong>Related Charts:</strong>"
RAMarker == "<strong>Related Articles:</strong>"

\* one <li> of a related section; an entry without a name renders nothing
RelatedItem(name, url, nl) ==
    IF name # <<>> /\ url # ""
    THEN <<"<li>", "<a href=", url, ">">> \o name \o <<"</a>", "</li>">> \o nl
    ELSE IF name # <<>> THEN <<"<li>">> \o name \o <<"</li>">> \o nl
    ELSE <<>>

RECURSIVE RelatedItems(_, _)
\* zip(names, urls) rendered; edges is the list of {title, url}
RelatedItems(edges, nl) ==
    IF edges = <<>> THEN <<>>
    ELSE RelatedItem(Head(edges).title, Head(edges).url, nl)
         \o RelatedItems(Tail(edges), nl)

\* related_section of the two inject functions
RelatedSection(marker, edges) ==
    <<"<p>", marker, "<ul>", "\n">> \o RelatedItems(edges, <<"\n">>)
    \o <<"</ul>", "</p>", "\n">> \o Spacer \o <<"\n">>

\* format_data_field_html without related charts (publish path); the texts
\* of the field analysis are single atoms
FormatDataFieldHtml(field_name) ==
    <<"<p>", "<strong>Term:</strong>", " ">> \o field_name \o <<"</p>">> \o Spacer
    \o <<"<p>", "<strong>Definition:</strong>", "</p>", "<p>", "~definition", "</p>">>
    \o Spacer
    \o <<"<p>", "<strong>Calculation:</strong>", "</p>", "<p>", "~calculation", "</p>">>
    \o Spacer
    \o <<"<hr>">>

\* clean_field_and_link: label is display_name, else the mapped human name,
\* else the field text; linked when the mapping has a url
FieldLabel(item, field_mapping) ==
    IF item.field # <<>> /\ \E i \in DOMAIN field_mapping : field_mapping[i].name = item.field
    THEN LET rec == field_mapping[CHOOSE i \in DOMAIN field_mapping :
                                     field_mapping[i].name = item.field]
             label == IF item.display_name # <<>> THEN item.display_name ELSE rec.human
         IN [label |-> label,
             html |-> IF rec.url # "" THEN <<"<a href=", rec.url, ">">> \o label \o <<"</a>">>
                      ELSE label]
    ELSE LET label == IF item.display_name # <<>> THEN item.display_name ELSE item.field
         IN [label |-> label, html |-> label]

RECURSIVE CleanFieldAndLinkFrom(_, _, _)
CleanFieldAndLinkFrom(items, field_mapping, seen) ==
    IF items = <<>> THEN <<>>
    ELSE LET r == FieldLabel(Head(items), field_mapping) IN
         IF r.label = <<>> \/ Lower(r.label) = NoneWord \/ r.label \in seen
         THEN CleanFieldAndLinkFrom(Tail(items), field_mapping, seen)
         ELSE <<r.html>>
              \o CleanFieldAndLinkFrom(Tail(items), field_mapping, seen \cup {r.label})

RECURSIVE JoinComma(_)
\* ", ".join(parts)
JoinComma(parts) ==
    IF parts = <<>> THEN <<>>
    ELSE IF Len(parts) = 1 THEN parts[1]
    ELSE parts[1] \o <<",", " ">> \o JoinComma(Tail(parts))

CleanFieldAndLink(items, field_mapping) ==
    JoinComma(CleanFieldAndLinkFrom(items, field_mapping, {}))

\* format_chart_with_json_html as _process_single_chart calls it when it
\* publishes: no related charts, no related articles.  "[...]" atoms are the
\* fixed blocks (image, category, availability, shows, best used for,
\* considerations), each with its spacer.
FormatChartWithJsonHtml(chart_name, chart_json, field_mapping) ==
    <<"<p>", "<span>", "<strong>">> \o chart_name \o <<"</strong>", "</span>", "</p>">>
    \o Spacer
    \o <<"[image]", "[category]", "[availability]", "[shows]", "[best]", "[considerations]">>
    \o <<"<p>", "<strong>Axes:</strong>", "</p>", "<ul>", "<li>", "<strong>Vertical:</strong>", " ">>
    \o CleanFieldAndLink(chart_json.Vertical, field_mapping)
    \o <<"</li>", "<li>", "<strong>Horizontal:</strong>", " ">>
    \o CleanFieldAndLink(chart_json.Horizontal, field_mapping)
    \o <<"</li>", "</ul>">> \o Spacer
    \o <<"<p>", "<strong>Dimensions:</strong>", " ">>
    \o CleanFieldAndLink(chart_json.Dimensions, field_mapping) \o <<"</p>">> \o Spacer
    \o <<"<p>", "<strong>Measures:</strong>", " ">>
    \o CleanFieldAndLink(chart_json.Measures, field_mapping) \o <<"</p>">> \o Spacer

\* one chart of format_article_with_charts_html
ArticleChartBlock(chart) ==
    (IF chart.title # <<>>
     THEN (IF chart.intercom_url # ""
           THEN <<"<p>", "<strong>", "<a href=", chart.intercom_url, ">">> \o chart.title
                \o <<"</a>", "</strong>", "</p>">>
           ELSE <<"<p>", "<strong>">> \o chart.title \o <<"</strong>", "</p>">>)
          \o Spacer
     ELSE <<>>)
    \o <<"<p>", "<img alt=">> \o chart.title \o <<">", "</p>">> \o Spacer
    \o <<"<p>", "<strong>Shows:</strong>", "</p>", "<p>", "~shows", "</p>">>
    \o Spacer \o Spacer

RECURSIVE ArticleChartBlocks(_)
ArticleChartBlocks(charts) ==
    IF charts = <<>> THEN <<>>
    ELSE ArticleChartBlock(Head(charts)) \o ArticleChartBlocks(Tail(charts))

\* format_article_with_charts_html ("[...]" atoms: the category and the
\* technology paragraph with their spacers)
FormatArticleWithChartsHtml(charts_data) ==
    <<"[category]", "[technology]">> \o ArticleChartBlocks(charts_data)

(* The pattern  <p><strong>MARKER</strong>.*?</p>\s*<p>&nbsp;</p>  (DOTALL) *)
IsWs(a) == a \in {" ", "\n"}

RECURSIVE SkipWs(_, _)
SkipWs(h, i) == IF i <= Len(h) /\ IsWs(h[i]) THEN SkipWs(h, i + 1) ELSE i

SpacerAt(h, i) == i + 2 <= Len(h) /\ SubSeq(h, i, i + 2) = Spacer

\* "</p>" at e, then whitespace, then the spacer
ClosesAt(h, e) == h[e] = "</p>" /\ SpacerAt(h, SkipWs(h, e + 1))

\* last index of the match that starts at s, 0 when there is none
MatchEnd(h, s, marker) ==
    IF /\ s + 1 <= Len(h)
       /\ h[s] = "<p>"
       /\ h[s + 1] = marker
       /\ \E e \in (s + 2)..Len(h) : ClosesAt(h, e)
    THEN LET e == CHOOSE x \in (s + 2)..Len(h) :
                     ClosesAt(h, x) /\ \A y \in (s + 2)..(x - 1) : ~ClosesAt(h, y)
         IN SkipWs(h, e + 1) + 2
    ELSE 0

RECURSIVE ReSub(_, _, _, _, _)
\* re.sub(pattern, repl, h): every match from index i on is replaced by
\* repl, after the match itself when keep (the \1 of the replacement)
ReSub(h, i, marker, repl, keep) ==
    IF i > Len(h) THEN <<>>
    ELSE LET m == MatchEnd(h, i, marker) IN
         IF m = 0 THEN <<h[i]>> \o ReSub(h, i + 1, marker, repl, keep)
         ELSE (IF keep THEN SubSeq(h, i, m) ELSE <<>>) \o repl
              \o ReSub(h, m + 1, marker, repl, keep)

RECURSIVE ReplaceAtom(_, _, _)
\* h.replace(atom, repl)
ReplaceAtom(h, atom, repl) ==
    IF h = <<>> THEN <<>>
    ELSE (IF Head(h) = atom THEN repl ELSE <<Head(h)>>) \o ReplaceAtom(Tail(h), atom, repl)

HasAtom(h, a) == \E i \in DOMAIN h : h[i] = a

\* format_data_field_html with related charts (preview path, lines 75-88)
FormatDataFieldPreviewHtml(field_name, edges) ==
    LET plain == FormatDataFieldHtml(field_name) IN
    IF edges = <<>> THEN plain
    ELSE SubSeq(plain, 1, Len(plain) - 1)
         \o <<"<p>", RCMarker, "<ul>">> \o RelatedItems(edges, <<>>) \o <<"</ul>", "</p>">>
         \o Spacer \o <<"<hr>">>

\* as InjectRelatedChartsToFieldHtml, but the section always goes to the end
InjectAppends(existing_html, edges) ==
    IF edges = <<>> THEN existing_html
    ELSE existing_html \o <<"\n">> \o RelatedSection(RCMarker, edges)

\* inject_related_charts_to_field_html
InjectRelatedChartsToFieldHtml(existing_html, edges) ==
    IF edges = <<>> THEN existing_html
    ELSE LET related_section == RelatedSection(RCMarker, edges) IN
         IF HasAtom(existing_html, RCMarker)
         THEN ReSub(existing_html, 1, RCMarker, related_section, FALSE)
         ELSE IF HasAtom(existing_html, "<hr>")
         THEN ReplaceAtom(existing_html, "<hr>", related_section \o <<"<hr>">>)
         ELSE existing_html \o <<"\n">> \o related_section

\* inject_related_articles_to_chart_html
InjectRelatedArticlesToChartHtml(existing_html, edges) ==
    IF edges = <<>> THEN existing_html
    ELSE LET related_section == RelatedSection(RAMarker, edges) IN
         IF HasAtom(existing_html, RAMarker)
         THEN ReSub(existing_html, 1, RAMarker, related_section, FALSE)
         ELSE IF HasAtom(existing_html, RCMarker)
         THEN ReSub(existing_html, 1, RCMarker, <<"\n">> \o related_section, TRUE)
         ELSE existing_html \o <<"\n">> \o related_section

-----------------------------------------------------------------------------
(* Edge maps: services/relationship_service.py                             *)
(* A map is a list of [key, val] in insertion order (a Python dict); val   *)
(* is the list of {title, url} edges.                                      *)

Edge(t, u) == [title |-> t, url |-> u]

Titles(edges) == {edges[i].title : i \in DOMAIN edges}

Keys(map) == {map[i].key : i \in DOMAIN map}

HasKey(map, k) == \E i \in DOMAIN map : map[i].key = k

KeyIndex(map, k) == CHOOSE i \in DOMAIN map : map[i].key = k

\* map.get(k, [])
MapGet(map, k) == IF HasKey(map, k) THEN map[KeyIndex(map, k)].val ELSE <<>>

\* lines 65-71: the key is created when missing, the edge is appended
\* unless its title is already in the list
AddByTitle(map, k, e) ==
    LET m1 == IF HasKey(map, k) THEN map ELSE Append(map, [key |-> k, val |-> <<>>])
        i == KeyIndex(m1, k)
    IN IF e.title \in Titles(m1[i].val) THEN m1
       ELSE [m1 EXCEPT ![i].val = Append(@, e)]

RECURSIVE AddFieldsOfChart(_, _, _)
\* lines 63-71: every key of the chart's field_mapping
AddFieldsOfChart(map, field_mapping, e) ==
    IF field_mapping = <<>> THEN map
    ELSE AddFieldsOfChart(AddByTitle(map, Head(field_mapping).name, e),
                          Tail(field_mapping), e)

RECURSIVE CurrentFieldEdges(_, _)
\* lines 52-71: the edges of the current run; a chart without a url is left out
CurrentFieldEdges(map, processed_charts) ==
    IF processed_charts = <<>> THEN map
    ELSE LET c == Head(processed_charts) IN
         IF c.status = "success" /\ c.chart_intercom_url # ""
         THEN CurrentFieldEdges(
                  AddFieldsOfChart(map, c.field_mapping,
                                   Edge(c.title, c.chart_intercom_url)),
                  Tail(processed_charts))
         ELSE CurrentFieldEdges(map, Tail(processed_charts))

\* as MergeByTitle, without the check against existing_titles
MergeAll(edges, related) == edges \o related

RECURSIVE MergeByTitle(_, _)
\* lines 80-84 / 135-139: a ledger edge is appended unless its title is
\* already in existing_titles, which grows with every edge appended
MergeByTitle(edges, related) ==
    IF related = <<>> THEN edges
    ELSE IF Head(related).title \in Titles(edges)
    THEN MergeByTitle(edges, Tail(related))
    ELSE MergeByTitle(Append(edges, Head(related)), Tail(related))

\* lines 74-84: the ledger's edges of every key; bad is the set of keys
\* whose sheet request fails
MergeFieldLedger(map, sheet, bad) ==
    [i \in DOMAIN map |->
        LET existing_relations ==
                GetRelatedChartsForField(sheet, map[i].key, map[i].key \notin bad)
        IN IF existing_relations.status = "success"
           THEN [map[i] EXCEPT !.val = MergeByTitle(@, existing_relations.related)]
           ELSE map[i]]

\* build_field_to_charts_map
BuildFieldToChartsMap(processed_charts, chart_library_sheet, bad) ==
    MergeFieldLedger(CurrentFieldEdges(<<>>, processed_charts), chart_library_sheet, bad)

RECURSIVE CurrentArticleEdges(_, _, _)
\* lines 115-126: the current article under every processed chart; the
\* article is not appended twice (dict equality)
CurrentArticleEdges(map, processed_charts, article_info) ==
    IF processed_charts = <<>> THEN map
    ELSE LET c == Head(processed_charts) IN
         IF c.status = "success"
         THEN LET m1 == IF HasKey(map, c.title) THEN map
                        ELSE Append(map, [key |-> c.title, val |-> <<>>])
                  i == KeyIndex(m1, c.title)
                  m2 == IF article_info \in Range(m1[i].val) THEN m1
                        ELSE [m1 EXCEPT ![i].val = Append(@, article_info)]
              IN CurrentArticleEdges(m2, Tail(processed_charts), article_info)
         ELSE CurrentArticleEdges(map, Tail(processed_charts), article_info)

\* lines 129-139
MergeArticleLedger(map, sheet, bad) ==
    [i \in DOMAIN map |->
        LET existing_relations ==
                GetRelatedArticlesForChart(sheet, map[i].key, map[i].key \notin bad)
        IN IF existing_relations.status = "success"
           THEN [map[i] EXCEPT !.val = MergeByTitle(@, existing_relations.related)]
           ELSE map[i]]

\* build_chart_to_articles_map
BuildChartToArticlesMap(processed_charts, article_title, article_url, article_library_sheet, bad) ==
    MergeArticleLedger(
        CurrentArticleEdges(<<>>, processed_charts, Edge(article_title, article_url)),
        article_library_sheet, bad)

-----------------------------------------------------------------------------
(* The inputs of a run: the source articles, their charts, the fields the  *)
(* classification finds in a chart, the human name the rewrite gives.      *)

FieldQ == <<"q">>
FieldQT == <<"q", "t">>

ChartLower == <<"k">>
ChartUpper == <<"K">>
ChartKM == <<"k", "m">>

ArticleIds == {"a1", "a2"}

\* joomla_service.download_article: title and charts of the source article
ArticleTitleOf(id) == IF id = "a1" THEN <<"A">> ELSE <<"B">>

ArticleChartsOf(id) ==
    IF id = "a1" THEN <<ChartLower, ChartKM, ChartUpper>> ELSE <<ChartUpper, ChartKM>>

\* extract_field_names / extract_field_contexts of the chart's analysis
ChartFieldsOf(original_chart_name) ==
    CASE original_chart_name = ChartLower -> <<FieldQ, FieldQT>>
      [] original_chart_name = ChartUpper -> <<FieldQ>>
      [] OTHER -> <<FieldQT, FieldQ>>

\* chatgpt_service.rewrite_field_name
RewriteFieldName(field_name) ==
    IF field_name = FieldQ THEN <<"Q", "q">> ELSE <<"N">>

UpperChar(c) ==
    CASE c = "k" -> "K"
      [] c = "a" -> "A"
      [] c = "b" -> "B"
      [] OTHER -> c

\* _smart_chart_title on a one-word title that is neither a special case
\* nor a small word: token.capitalize()
SmartChartTitle(text) ==
    IF text = <<>> THEN <<>> ELSE <<UpperChar(Head(text))>> \o Lower(Tail(text))

RECURSIVE BeforeParen(_)
\* article_title.split('(')[0]
BeforeParen(s) ==
    IF s = <<>> \/ Head(s) = "(" THEN <<>> ELSE <<Head(s)>> \o BeforeParen(Tail(s))

-----------------------------------------------------------------------------
(* The publisher: services/intercom_service.py, as the workflow sees it    *)

\* data.get("url") of the article the publisher created under that id
UrlOf(id) == "u" \o ToString(id)

\* create_article: ok = FALSE is a request that failed after its retries
CreateArticle(ic, body_html, ok) ==
    IF ok THEN [ic |-> Append(ic, body_html), status |-> "success",
                article_id |-> Len(ic) + 1, article_url |-> UrlOf(Len(ic) + 1)]
    ELSE [ic |-> ic, status |-> "error", article_id |-> 0, article_url |-> ""]

\* update_article(article_id, body_html=...)
UpdateArticle(ic, article_id, body_html, ok) ==
    IF ok /\ article_id \in DOMAIN ic
    THEN [ic |-> [ic EXCEPT ![article_id] = body_html], status |-> "success",
          article_url |-> UrlOf(article_id)]
    ELSE [ic |-> ic, status |-> "error", article_url |-> ""]

-----------------------------------------------------------------------------
(* services/workflow.py: one data field, one chart                         *)

\* _process_single_data_field (not preview).  w = [dd, ic]: the data
\* dictionary sheet and the publisher; ok: analysis and publish succeed.
ProcessSingleDataField(w, field_name, check_duplicates, ok) ==
    LET duplicate_check == CheckDuplicate(w.dd, field_name) IN
    IF check_duplicates /\ duplicate_check.exists
    THEN [w |-> w,
          res |-> [status |-> "skipped", field_name |-> field_name,
                   human_name |-> duplicate_check.human_name,
                   intercom_url |-> duplicate_check.intercom_url,
                   intercom_article_id |-> 0, field_html |-> <<>>]]
    ELSE LET human_name == RewriteFieldName(field_name)
             html_content == FormatDataFieldHtml(human_name)
             intercom_result == CreateArticle(w.ic, html_content, ok)
         IN IF intercom_result.status # "success"
            THEN [w |-> w,
                  res |-> [status |-> "skipped", field_name |-> field_name,
                           human_name |-> field_name, intercom_url |-> "",
                           intercom_article_id |-> 0, field_html |-> <<>>]]
            ELSE [w |-> [dd |-> LogProcessedItem(w.dd, field_name, human_name,
                                                 intercom_result.article_url,
                                                 intercom_result.article_id,
                                                 html_content),
                         ic |-> intercom_result.ic],
                  res |-> [status |-> "success", field_name |-> field_name,
                           human_name |-> human_name,
                           intercom_url |-> intercom_result.article_url,
                           intercom_article_id |-> intercom_result.article_id,
                           field_html |-> html_content]]

RECURSIVE ProcessFields(_, _, _, _, _)
\* lines 860-903: the fields of the chart in order; bad holds the positions
\* of the fields whose analysis or publish fails.  Returns the world and
\* the list of field results.
ProcessFields(w, names, i, check_duplicates, bad) ==
    IF i > Len(names) THEN [w |-> w, results |-> <<>>]
    ELSE LET one == ProcessSingleDataField(w, names[i], check_duplicates, i \notin bad)
             rest == ProcessFields(one.w, names, i + 1, check_duplicates, bad)
         IN [w |-> rest.w, results |-> <<one.res>> \o rest.results]

SelectStatus(results, st) == SelectSeq(results, LAMBDA r : r.status = st)

RECURSIVE MappingOfProcessed(_, _)
\* lines 926-946: batch_lookup of the processed field names
MappingOfProcessed(dd, fields) ==
    IF fields = <<>> THEN <<>>
    ELSE LET b == BatchLookupOne(dd, Head(fields).field_name) IN
         <<[name |-> Head(fields).field_name, human |-> b.human, url |-> b.url]>>
         \o MappingOfProcessed(dd, Tail(fields))

\* field_mapping[name] = rec on a dict kept as a list
MappingPut(fm, rec) ==
    IF \E i \in DOMAIN fm : fm[i].name = rec.name
    THEN [i \in DOMAIN fm |-> IF fm[i].name = rec.name THEN rec ELSE fm[i]]
    ELSE Append(fm, rec)

RECURSIVE MappingAddSkipped(_, _)
\* lines 949-954: the skipped fields that have a url
MappingAddSkipped(fm, skipped_fields) ==
    IF skipped_fields = <<>> THEN fm
    ELSE LET f == Head(skipped_fields) IN
         MappingAddSkipped(
             IF f.intercom_url # ""
             THEN MappingPut(fm, [name |-> f.field_name, human |-> f.human_name,
                                  url |-> f.intercom_url])
             ELSE fm,
             Tail(skipped_fields))

\* the chart's analysis as _clean_chart_json_fields leaves it: the fields
\* are its dimensions, no display names
ChartJsonOf(names) ==
    [Vertical |-> <<>>, Horizontal |-> <<>>, Measures |-> <<>>,
     Dimensions |-> [i \in DOMAIN names |-> [field |-> names[i], display_name |-> <<>>]]]

SkippedChart(title, original_chart_name, named) ==
    [status |-> "skipped", title |-> title,
     chart_name |-> IF named THEN title ELSE <<>>,
     original_chart_name |-> IF named THEN original_chart_name ELSE <<>>,
     reason |-> IF named THEN "Duplicate found in Google Sheets" ELSE "No workbook found"]

\* lines 1045-1117: the chart is logged when its article was created; the
\* result carries the url and id of the article, empty when it was not
ChartPublished(cl, original_chart_name, title, fr, field_mapping, chart_html, cr) ==
    [w |-> [dd |-> fr.w.dd,
            cl |-> IF cr.status = "success"
                   THEN LogProcessedItem(cl, original_chart_name, title,
                                         cr.article_url, cr.article_id, chart_html)
                   ELSE cl,
            ic |-> cr.ic],
     res |-> [status |-> "success", title |-> title,
              original_chart_name |-> original_chart_name,
              chart_intercom_url |-> cr.article_url,
              chart_article_id |-> cr.article_id,
              chart_html |-> chart_html, field_mapping |-> field_mapping,
              fields_data |-> SelectStatus(fr.results, "success"),
              fields_skipped |-> SelectStatus(fr.results, "skipped")]]

\* lines 986-1051: the chart's html, then its create_article
ChartOfMapping(cl, original_chart_name, title, fr, field_mapping, chart_html, ok) ==
    ChartPublished(cl, original_chart_name, title, fr, field_mapping, chart_html,
                   CreateArticle(fr.w.ic, chart_html, ok))

\* lines 905-1001: fr is the world and the results after the fields loop
ChartOfFields(cl, original_chart_name, title, fr, field_mapping, ok) ==
    IF fr.results = <<>>
    THEN [w |-> [dd |-> fr.w.dd, cl |-> cl, ic |-> fr.w.ic],
          res |-> [status |-> "success", title |-> title,
                   original_chart_name |-> original_chart_name,
                   chart_intercom_url |-> "", chart_article_id |-> 0,
                   chart_html |-> <<>>, field_mapping |-> <<>>,
                   fields_data |-> <<>>, fields_skipped |-> <<>>]]
    ELSE ChartOfMapping(cl, original_chart_name, title, fr, field_mapping,
             FormatChartWithJsonHtml(title, ChartJsonOf(ChartFieldsOf(original_chart_name)),
                                     field_mapping),
             ok)

\* lines 923-954: field_mapping of the results of the fields loop
FieldMappingOf(fr) ==
    MappingAddSkipped(MappingOfProcessed(fr.w.dd, SelectStatus(fr.results, "success")),
                      SelectStatus(fr.results, "skipped"))

\* lines 846-954
ChartAfterFields(cl, original_chart_name, title, fr, ok) ==
    ChartOfFields(cl, original_chart_name, title, fr, FieldMappingOf(fr), ok)

\* _process_single_chart (not preview).  w = [dd, cl, ic]; flt is the set of
\* failures met: "workbook" (search, download or analysis), "context"
\* (extract_field_contexts raises), "chart" (the chart's create_article);
\* bad holds the positions of the fields that fail.
ProcessSingleChart(w, original_chart_name, check_duplicates, flt, bad) ==
    IF check_duplicates /\ CheckDuplicate(w.cl, original_chart_name).exists
    THEN [w |-> w, res |-> SkippedChart(SmartChartTitle(original_chart_name),
                                        original_chart_name, TRUE)]
    ELSE IF "workbook" \in flt
    THEN [w |-> w, res |-> SkippedChart(SmartChartTitle(original_chart_name),
                                        original_chart_name, FALSE)]
    ELSE ChartAfterFields(w.cl, original_chart_name, SmartChartTitle(original_chart_name),
             IF "context" \notin flt
             THEN ProcessFields([dd |-> w.dd, ic |-> w.ic],
                                ChartFieldsOf(original_chart_name), 1,
                                check_duplicates, bad)
             ELSE [w |-> [dd |-> w.dd, ic |-> w.ic], results |-> <<>>],
             "chart" \notin flt)

\* execute, lines 296-322: the call in its try; an exception of
\* _process_single_chart ("ledger": check_duplicate raises on a failed read
\* of the chart sheet, google_sheets_service.py lines 50-67) is caught and
\* the chart is appended to skipped_charts with the error as its reason
TryProcessSingleChart(w, original_chart_name, check_duplicates, flt, bad) ==
    IF "ledger" \in flt
    THEN [w |-> w,
          res |-> [SkippedChart(SmartChartTitle(original_chart_name),
                                original_chart_name, TRUE) EXCEPT !.reason = "Error"]]
    ELSE ProcessSingleChart(w, original_chart_name, check_duplicates, flt, bad)

-----------------------------------------------------------------------------
(* Propagation: services/relationship_service.py, lines 144-388            *)

MaxRuns == 2
MaxFaults == 1

Item(n, h, i, x, u) ==
    [name |-> n, human_name |-> h, article_id |-> i, old_html |-> x, intercom_url |-> u]

\* fields_to_update[name] = item on a dict kept as a list
ItemPut(items, it) ==
    IF \E i \in DOMAIN items : items[i].name = it.name
    THEN [i \in DOMAIN items |-> IF items[i].name = it.name THEN it ELSE items[i]]
    ELSE Append(items, it)

RECURSIVE CollectCreated(_, _, _)
\* lines 173-192: the fields the run created, with the html just generated
CollectCreated(items, fields_data, map) ==
    IF fields_data = <<>> THEN items
    ELSE LET f == Head(fields_data) IN
         CollectCreated(
             IF f.status = "success" /\ HasKey(map, f.field_name) /\ f.field_html # <<>>
             THEN ItemPut(items, Item(f.field_name, f.human_name, f.intercom_article_id,
                                      f.field_html, f.intercom_url))
             ELSE items,
             Tail(fields_data), map)

RECURSIVE CollectSkipped(_, _, _, _)
\* lines 195-213: the fields skipped as duplicates, looked up in the sheet
CollectSkipped(items, fields_skipped, map, dd) ==
    IF fields_skipped = <<>> THEN items
    ELSE LET f == Head(fields_skipped)
             lookup_result == LookupArticleByTitle(dd, f.field_name)
         IN CollectSkipped(
                IF f.field_name # <<>> /\ HasKey(map, f.field_name) /\ lookup_result.exists
                THEN ItemPut(items, Item(f.field_name, f.human_name,
                                         lookup_result.intercom_id, lookup_result.html,
                                         lookup_result.intercom_url))
                ELSE items,
                Tail(fields_skipped), map, dd)

RECURSIVE CollectFields(_, _, _, _)
\* lines 170-213: fields_to_update
CollectFields(items, processed_charts, map, dd) ==
    IF processed_charts = <<>> THEN items
    ELSE LET c == Head(processed_charts) IN
         CollectFields(
             IF c.status = "success"
             THEN CollectSkipped(CollectCreated(items, c.fields_data, map),
                                 c.fields_skipped, map, dd)
             ELSE items,
             Tail(processed_charts), map, dd)

\* as FieldEligible, looking at the edges only
FieldEligibleByEdges(it, map) == MapGet(map, it.name) # <<>>

\* line 219: the object has edges, a remote id and a prior html
FieldEligible(it, map) ==
    MapGet(map, it.name) # <<>> /\ it.article_id # 0 /\ it.old_html # <<>>

\* lines 298-330: title, original name, url, id and html of a chart result
ChartInfo(r, cl) ==
    IF r.status = "success"
    THEN [found |-> TRUE, chart_title |-> r.title,
          original_chart_name |-> r.original_chart_name,
          chart_url |-> r.chart_intercom_url, chart_id |-> r.chart_article_id,
          chart_html |-> r.chart_html]
    ELSE LET chart_title == IF r.chart_name # <<>> THEN r.chart_name ELSE r.title
             lookup_result == LookupArticleByTitle(cl, chart_title)
         IN [found |-> chart_title # <<>> /\ lookup_result.exists,
             chart_title |-> chart_title,
             original_chart_name |-> IF r.original_chart_name # <<>>
                                     THEN r.original_chart_name ELSE chart_title,
             chart_url |-> "", chart_id |-> lookup_result.intercom_id,
             chart_html |-> lookup_result.html]

\* lines 314-343: nothing is skipped for this chart
ChartEligible(info, map) ==
    /\ info.found
    /\ info.chart_html # <<>>
    /\ info.chart_id # 0
    /\ MapGet(map, info.chart_title) # <<>>

-----------------------------------------------------------------------------
(* services/chatgpt_service.py: extract_field_names                        *)

MaxItems == 3

Sales == <<"S", "a", "l", "e", "s">>
SalesLowerSpace == <<"s", "a", "l", "e", "s", " ">>
SalesHyphen == <<"s", "-", "a", "l", "e", "s">>
Profit == <<"P", "r", "o", "f", "i", "t">>
ProfitUnder == <<"p", "r", "o", "_", "f", "i", "t">>
NetProfit == <<"N", "e", "t", " ", "P", "r", "o", "f", "i", "t">>
Total == <<"T", "o", "t", "a", "l">>
NoneText == <<"N", "o", "n", "e">>

\* an element of the parsed response: a dict with 'field' and
\* 'display_name' (<<>> is None), or a plain string
DictItem(f, dn) == [kind |-> "dict", field |-> f, display_name |-> dn]
StrItem(f) == [kind |-> "str", field |-> f, display_name |-> <<>>]

ItemChoices ==
    {DictItem(Sales, <<>>), DictItem(SalesLowerSpace, Total), DictItem(Profit, NetProfit),
     DictItem(ProfitUnder, NoneText), DictItem(NoneText, Total),
     StrItem(SalesHyphen), StrItem(<<" ">>)}

Shapes == {"dict", "list", "text"}

\* _parse_display_name: None for null, none and the empty string
ParseDisplayName(value) ==
    IF Lower(Strip(value)) \in {<<>>, NoneWord, <<"n", "u", "l", "l">>} THEN <<>>
    ELSE Strip(value)

\* lines 199-204 / 208-214: the raw item of one element of a JSON list
RawOfJson(item) ==
    IF item.kind = "dict"
    THEN <<[field |-> Strip(item.field),
            display_name |-> ParseDisplayName(item.display_name)]>>
    ELSE IF Strip(item.field) # <<>>
    THEN <<[field |-> Strip(item.field), display_name |-> <<>>]>>
    ELSE <<>>

\* lines 216-218: the raw item of one piece of the comma-separated text
RawOfText(item) ==
    IF Strip(item.field) # <<>>
    THEN <<[field |-> Strip(item.field), display_name |-> <<>>]>>
    ELSE <<>>

RECURSIVE RawItemsOf(_, _)
RawItemsOf(items, shape) ==
    IF items = <<>> THEN <<>>
    ELSE (IF shape = "text" THEN RawOfText(Head(items)) ELSE RawOfJson(Head(items)))
         \o RawItemsOf(Tail(items), shape)

\* lines 193-222: raw_items.  A response of shape "dict" holds its first
\* element under Vertical and the others under Measures; the sections are
\* read in the order Vertical, Horizontal, Dimensions, Measures.
RawItems(input) == RawItemsOf(input.items, input.shape)

\* field.lower().replace(' ', '').replace('-', '').replace('_', '')
NormKey(field) == RemoveChars(Lower(field), {" ", "-", "_"})

\* as SeenAdd, but a later item of the same key takes the place of the first
SeenOverwrite(seen, norm_key, item) ==
    IF \E i \in DOMAIN seen : seen[i].key = norm_key
    THEN [i \in DOMAIN seen |->
             IF seen[i].key = norm_key THEN [key |-> norm_key, item |-> item] ELSE seen[i]]
    ELSE Append(seen, [key |-> norm_key, item |-> item])

\* lines 232-233: if norm_key not in seen: seen[norm_key] = item
SeenAdd(seen, norm_key, item) ==
    IF \E i \in DOMAIN seen : seen[i].key = norm_key THEN seen
    ELSE Append(seen, [key |-> norm_key, item |-> item])

RECURSIVE Dedup(_, _)
\* lines 225-233
Dedup(seen, raw_items) ==
    IF raw_items = <<>> THEN seen
    ELSE LET field == Head(raw_items).field IN
         IF field = <<>> \/ Lower(field) = NoneWord
         THEN Dedup(seen, Tail(raw_items))
         ELSE Dedup(SeenAdd(seen, NormKey(field), Head(raw_items)), Tail(raw_items))

\* d[k] = v on a dict kept as a list of [key, val]
DictPut(d, k, v) ==
    IF \E i \in DOMAIN d : d[i].key = k
    THEN [i \in DOMAIN d |-> IF d[i].key = k THEN [key |-> k, val |-> v] ELSE d[i]]
    ELSE Append(d, [key |-> k, val |-> v])

RECURSIVE DisplayNameMap(_, _)
\* line 237: {item['field']: item['display_name'] for item in final_items}
DisplayNameMap(d, final_items) ==
    IF final_items = <<>> THEN d
    ELSE DisplayNameMap(DictPut(d, Head(final_items).field, Head(final_items).display_name),
                        Tail(final_items))

\* lines 235-243: the result built from seen
ResultOfSeen(seen) ==
    [field_names |-> [i \in DOMAIN seen |-> seen[i].item.field],
     display_name_map |-> DisplayNameMap(<<>>, [i \in DOMAIN seen |-> seen[i].item]),
     total_count |-> Len(seen)]

\* extract_field_names
ExtractFieldNames(input) == ResultOfSeen(Dedup(<<>>, RawItems(input)))

ExIdle == [pc |-> "idle"]

\* ex: the response given to extract_field_names, then its result
ExCall ==
    /\ ex.pc = "called"
    /\ ex' = [pc |-> "returned", input |-> ex.input, out |-> ExtractFieldNames(ex.input)]
    /\ UNCHANGED <<wfvars, rq, tr, fn>>

-----------------------------------------------------------------------------
(* services/data_field_analyzer.py: _generate_context_tree                 *)
(* The recursion is run on an explicit stack of calls.  A field is its     *)
(* norm_key, a number; the registry (field_map) gives a field its kind and,*)
(* for a calculation, the dep_norm of the names found in its formula, in   *)
(* the order of sorted(set(dependencies)).                                 *)

\* if current_depth > 5
MaxDepth == 5

MaxDeps == 2

\* the fields a formula may name
DepKeys == 1..4

\* a chain of calculations, each naming the next: 5 -> 6 -> ... -> 11

Absent == [kind |-> "absent", deps |-> <<>>]
Native == [kind |-> "native", deps |-> <<>>]
Calc(deps) == [kind |-> "calc", deps |-> deps]

Entries ==
    {Absent, Native} \cup {Calc(d) : d \in UNION {[1..m -> DepKeys] : m \in 0..MaxDeps}}

\* the registry: fields 1 and 2 as chosen, 3 a calculation over 4, 4 native
Registry(e1, e2) ==
    [k \in 1..11 |->
        CASE k = 1 -> e1
          [] k = 2 -> e2
          [] k = 3 -> Calc(<<4>>)
          [] k = 4 -> Native
          [] k = 11 -> Native
          [] OTHER -> Calc(<<k + 1>>)]

\* a call: norm_key, current_depth, visited, and once it has passed its
\* checks (entered) the dependencies still to visit
Frame(key, depth, visited) ==
    [key |-> key, depth |-> depth, visited |-> visited, entered |-> FALSE, deps |-> <<>>]

\* a line of the result, with the keys of the calls above the one that wrote it
Line(f, kind, stack) ==
    [depth |-> f.depth, kind |-> kind, key |-> f.key,
     path |-> [i \in 1..(Len(stack) - 1) |-> stack[i].key]]

TrIdle == [pc |-> "idle"]

Top == tr.stack[Len(tr.stack)]

\* as AfterChild, for a set shared with the child instead of copied
AfterChildShared(parent_visited, child_visited) == parent_visited \cup child_visited

\* line 335, visited.copy(): what the child adds to its set is not seen by
\* the caller
AfterChild(parent_visited, child_visited) == parent_visited

\* the call at the top returns; child_visited is its set as it leaves it
Pop(stack, child_visited) ==
    IF Len(stack) = 1 THEN <<>>
    ELSE [i \in 1..(Len(stack) - 1) |->
             IF i = Len(stack) - 1
             THEN [stack[i] EXCEPT !.visited = AfterChild(@, child_visited)]
             ELSE stack[i]]

Returned(stack, lines, child_visited) ==
    tr' = [tr EXCEPT !.stack = Pop(stack, child_visited),
                     !.lines = lines,
                     !.pc = IF Len(stack) = 1 THEN "done" ELSE "run"]

\* as IsVisited, never finding the key
IsVisitedNever(key, visited) == FALSE

\* line 305: norm_key in visited
IsVisited(key, visited) == key \in visited

Entering == tr.pc = "run" /\ ~Top.entered

\* as TooDeep, for a tree without a depth limit
TooDeepNever(current_depth) == FALSE

\* line 303: if current_depth > 5
TooDeep(current_depth) == current_depth > MaxDepth

\* lines 303-304
TrMaxDepth ==
    /\ Entering
    /\ TooDeep(Top.depth)
    /\ Returned(tr.stack, Append(tr.lines, Line(Top, "max", tr.stack)), Top.visited)
    /\ UNCHANGED <<wfvars, rq, ex, fn>>

\* lines 305-306
TrLoop ==
    /\ Entering
    /\ ~TooDeep(Top.depth)
    /\ IsVisited(Top.key, Top.visited)
    /\ Returned(tr.stack, Append(tr.lines, Line(Top, "loop", tr.stack)), Top.visited)
    /\ UNCHANGED <<wfvars, rq, ex, fn>>

Passes == Entering /\ ~TooDeep(Top.depth) /\ ~IsVisited(Top.key, Top.visited)

\* lines 308-311
TrNotFound ==
    /\ Passes
    /\ tr.reg[Top.key].kind = "absent"
    /\ Returned(tr.stack, Append(tr.lines, Line(Top, "notfound", tr.stack)),
                Top.visited \cup {Top.key})
    /\ UNCHANGED <<wfvars, rq, ex, fn>>

\* lines 308, 338-353: a native field: its line and the line of its values
TrNative ==
    /\ Passes
    /\ tr.reg[Top.key].kind = "native"
    /\ Returned(tr.stack,
                tr.lines \o <<Line(Top, "native", tr.stack), Line(Top, "values", tr.stack)>>,
                Top.visited \cup {Top.key})
    /\ UNCHANGED <<wfvars, rq, ex, fn>>

\* lines 308, 316-323: a calculation: its two lines, then its dependencies
TrCalc ==
    /\ Passes
    /\ tr.reg[Top.key].kind = "calc"
    /\ tr' = [tr EXCEPT
                !.stack[Len(tr.stack)] =
                    [Top EXCEPT !.entered = TRUE, !.visited = @ \cup {Top.key},
                                !.deps = tr.reg[Top.key].deps],
                !.lines = tr.lines \o <<Line(Top, "calc", tr.stack),
                                        Line(Top, "formula", tr.stack)>>]
    /\ UNCHANGED <<wfvars, rq, ex, fn>>

Visiting == tr.pc = "run" /\ Top.entered /\ Top.deps # <<>>

\* lines 324-336: the next dependency is visited with a copy of visited
TrCall ==
    /\ Visiting
    /\ Head(Top.deps) # Top.key
    /\ tr' = [tr EXCEPT
                !.stack = Append([tr.stack EXCEPT ![Len(tr.stack)].deps = Tail(@)],
                                 Frame(Head(Top.deps), Top.depth + 1, Top.visited))]
    /\ UNCHANGED <<wfvars, rq, ex, fn>>

\* line 326: a formula that names its own field
TrSkipSelf ==
    /\ Visiting
    /\ Head(Top.deps) = Top.key
    /\ tr' = [tr EXCEPT !.stack[Len(tr.stack)].deps = Tail(@)]
    /\ UNCHANGED <<wfvars, rq, ex, fn>>

\* line 355: return lines
TrReturn ==
    /\ tr.pc = "run"
    /\ Top.entered
    /\ Top.deps = <<>>
    /\ Returned(tr.stack, tr.lines, Top.visited)
    /\ UNCHANGED <<wfvars, rq, ex, fn>>

-----------------------------------------------------------------------------
(* services/data_field_analyzer.py: _translate_formula                     *)
(* A formula is a sequence of characters; id_to_human is the list of its   *)
(* items, [key, val], in insertion order.                                  *)

FnIdle == [pc |-> "idle"]

MaxTokens == 3

ID1 == <<"I", "D", "1">>
ID10 == <<"I", "D", "1", "0">>

\* captions: two plain ones and one that spells the shorter identifier
CaptionA == <<"A">>
CaptionB == <<"B">>
CaptionID1s == ID1 \o <<"s">>
Captions == {CaptionA, CaptionB, CaptionID1s}

FormulaTokens == {ID1, ID10, <<"+">>, <<" ">>}

RECURSIVE Flatten(_)
Flatten(ss) == IF ss = <<>> THEN <<>> ELSE Head(ss) \o Flatten(Tail(ss))

\* raw_formula.split() joined again: runs of blanks become one, none at the ends
RECURSIVE Collapse(_)
Collapse(s) ==
    IF s = <<>> THEN <<>>
    ELSE IF Head(s) = " " /\ (Len(s) = 1 \/ s[2] = " ") THEN Collapse(Tail(s))
    ELSE <<Head(s)>> \o Collapse(Tail(s))

\* str.replace(old, new): the occurrences of old, left to right, not overlapping
RECURSIVE ReplaceAll(_, _, _)
ReplaceAll(s, old, new) ==
    IF Len(s) < Len(old) THEN s
    ELSE IF SubSeq(s, 1, Len(old)) = old
         THEN new \o ReplaceAll(SubSeq(s, Len(old) + 1, Len(s)), old, new)
         ELSE <<Head(s)>> \o ReplaceAll(Tail(s), old, new)

\* sorted(items, key=lambda x: len(x[0]), reverse=True): stable
RECURSIVE InsertByLen(_, _)
InsertByLen(sorted, x) ==
    IF sorted = <<>> THEN <<x>>
    ELSE IF Len(Head(sorted).key) >= Len(x.key)
         THEN <<Head(sorted)>> \o InsertByLen(Tail(sorted), x)
         ELSE <<x>> \o sorted

RECURSIVE SortedByLen(_, _)
SortedByLen(sorted, items) ==
    IF items = <<>> THEN sorted
    ELSE SortedByLen(InsertByLen(sorted, Head(items)), Tail(items))

\* the loop of _translate_formula over the sorted items
RECURSIVE ReplaceEach(_, _)
ReplaceEach(clean, items) ==
    IF items = <<>> THEN clean
    ELSE ReplaceEach(IF Contains(clean, Head(items).key)
                     THEN ReplaceAll(clean, Head(items).key, Head(items).val)
                     ELSE clean,
                     Tail(items))

\* _translate_formula
TranslateFormula(raw_formula, id_to_human) ==
    IF raw_formula = <<>> THEN <<>>
    ELSE ReplaceEach(LStrip(Collapse(raw_formula)), SortedByLen(<<>>, id_to_human))

\* fn: the formula and the table given to _translate_formula, then its result
TfCall ==
    /\ fn.pc = "translate"
    /\ fn' = [fn EXCEPT !.pc = "translated",
                        !.out = TranslateFormula(fn.raw_formula, fn.id_to_human)]
    /\ UNCHANGED <<wfvars, rq, ex, tr>>

-----------------------------------------------------------------------------
(* services/data_field_analyzer.py: clean_tableau_field_name               *)
(* The text is a sequence of characters; each re.sub is a scan from the    *)
(* left that drops the matches it meets.                                   *)

LowerLetters == {"a", "b", "c", "d", "e", "f", "g", "h", "i", "j", "k", "l", "m", "n", "o", "p", "q", "r", "s", "t", "u", "v", "w", "x", "y", "z"}
UpperLetters == {"A", "B", "C", "D", "E", "F", "G", "H", "I", "J", "K", "L", "M", "N", "O", "P", "Q", "R", "S", "T", "U", "V", "W", "X", "Y", "Z"}
Digits == {"0", "1", "2", "3", "4", "5", "6", "7", "8", "9"}

\* \w
IsWordChar(c) == c \in LowerLetters \cup UpperLetters \cup Digits \cup {"_"}

\* the length of the longest prefix of s made of characters of cs
RECURSIVE RunLen(_, _)
RunLen(s, cs) == IF s # <<>> /\ Head(s) \in cs THEN 1 + RunLen(Tail(s), cs) ELSE 0

\* A. re.sub(r'^[a-z]+:', '', text)
StripTypePrefix(text) ==
    LET n == RunLen(text, LowerLetters) IN
    IF n >= 1 /\ Len(text) > n /\ text[n + 1] = ":"
    THEN SubSeq(text, n + 2, Len(text))
    ELSE text

\* the end of a match of \[[^\]]+\.[^\]]+\]\. that starts at the head of s, else 0
SqlProxyEnd(s) ==
    IF s = <<>> \/ Head(s) # "[" THEN 0
    ELSE LET j == 2 + RunLen(Tail(s), {s[i] : i \in DOMAIN s} \ {"]"}) IN
         IF /\ j + 1 <= Len(s)
            /\ s[j + 1] = "."
            /\ \E k \in 3..(j - 2) : s[k] = "."
         THEN j + 1
         ELSE 0

\* B. re.sub(r'\[[^\]]+\.[^\]]+\]\.', '', text)
RECURSIVE StripSqlProxy(_)
StripSqlProxy(s) ==
    IF s = <<>> THEN <<>>
    ELSE IF SqlProxyEnd(s) > 0 THEN StripSqlProxy(SubSeq(s, SqlProxyEnd(s) + 1, Len(s)))
    ELSE <<Head(s)>> \o StripSqlProxy(Tail(s))

\* (sum|none|avg|min|max|attr|usr|tmn|pcto|mn)
AggWords == {<<"s", "u", "m">>, NoneWord, <<"a", "v", "g">>, <<"m", "i", "n">>, <<"m", "a", "x">>, <<"a", "t", "t", "r">>, <<"u", "s", "r">>, <<"t", "m", "n">>, <<"p", "c", "t", "o">>, <<"m", "n">>}

\* s starts with one of the words, in any letter case, followed by the text tail
StartsWithAny(s, words, tail) ==
    \E w \in words :
        /\ Len(s) >= Len(w) + Len(tail)
        /\ Lower(SubSeq(s, 1, Len(w))) = w
        /\ SubSeq(s, Len(w) + 1, Len(w) + Len(tail)) = tail

\* C. re.sub(r'\b(sum|...|mn):', '', text, flags=re.IGNORECASE); after_word: the
\* character before the head of s is a word character
RECURSIVE StripAggPrefix(_, _)
StripAggPrefix(s, after_word) ==
    IF s = <<>> THEN <<>>
    ELSE IF ~after_word /\ StartsWithAny(s, AggWords, <<":">>)
         THEN StripAggPrefix(SubSeq(s, RunLen(s, LowerLetters \cup UpperLetters) + 2, Len(s)), FALSE)
    ELSE <<Head(s)>> \o StripAggPrefix(Tail(s), IsWordChar(Head(s)))

\* C. re.sub(r':(qk|nk|ok)', '', text, flags=re.IGNORECASE)
RECURSIVE StripRoleSuffix(_)
StripRoleSuffix(s) ==
    IF s = <<>> THEN <<>>
    ELSE IF Head(s) = ":" /\ StartsWithAny(Tail(s), {<<"q", "k">>, <<"n", "k">>, <<"o", "k">>}, <<>>)
         THEN StripRoleSuffix(SubSeq(s, 4, Len(s)))
    ELSE <<Head(s)>> \o StripRoleSuffix(Tail(s))

\* C. re.sub(r':[0-9]+', '', text)
RECURSIVE StripNumberSuffix(_)
StripNumberSuffix(s) ==
    IF s = <<>> THEN <<>>
    ELSE IF Head(s) = ":" /\ RunLen(Tail(s), Digits) >= 1
         THEN StripNumberSuffix(SubSeq(s, RunLen(Tail(s), Digits) + 2, Len(s)))
    ELSE <<Head(s)>> \o StripNumberSuffix(Tail(s))

\* E. re.split(r'[\*/]', text)
RECURSIVE SplitFormula(_, _)
SplitFormula(s, part) ==
    IF s = <<>> THEN <<part>>
    ELSE IF Head(s) \in {"*", "/"} THEN <<part>> \o SplitFormula(Tail(s), <<>>)
    ELSE SplitFormula(Tail(s), Append(part, Head(s)))

RECURSIVE CleanPartsKeepAll(_, _)
\* as CleanParts, keeping a part each time it comes
CleanPartsKeepAll(parts, clean_parts) ==
    IF parts = <<>> THEN clean_parts
    ELSE LET p == Strip(Head(parts)) IN
         CleanPartsKeepAll(Tail(parts), IF p # <<>> THEN Append(clean_parts, p) ELSE clean_parts)

\* E. the loop over parts: strip, keep the non-empty ones once each
RECURSIVE CleanParts(_, _)
CleanParts(parts, clean_parts) ==
    IF parts = <<>> THEN clean_parts
    ELSE LET p == Strip(Head(parts)) IN
         CleanParts(Tail(parts),
                    IF p # <<>> /\ p \notin Range(clean_parts)
                    THEN Append(clean_parts, p) ELSE clean_parts)

\* clean_tableau_field_name
CleanTableauFieldName(text) ==
    IF text = <<>> \/ text = <<"N", "o", "n", "e">> THEN <<"N", "o", "n", "e">>
    ELSE JoinComma(CleanParts(SplitFormula(
             RemoveChars(StripNumberSuffix(StripRoleSuffix(StripAggPrefix(
                 StripSqlProxy(StripTypePrefix(text)), FALSE))),
                 {"[", "]", "\"", "(", ")"}), <<>>), <<>>))

\* fn: the text given to clean_tableau_field_name, then its result and the
\* result of the call on that result
CnCall ==
    /\ fn.pc = "clean"
    /\ fn' = [fn EXCEPT !.pc = "cleaned",
                        !.out = CleanTableauFieldName(fn.text),
                        !.again = CleanTableauFieldName(CleanTableauFieldName(fn.text))]
    /\ UNCHANGED <<wfvars, rq, ex, tr>>

-----------------------------------------------------------------------------
(* services/data_field_analyzer.py: _build_knowledge_base                  *)
(* The document is the list of its datasources, each the list of its       *)
(* columns in document order.  A column is its attributes name, caption,   *)
(* role and type (<<>> and "" when absent) and its calculation: calc says  *)
(* that the element is there, formula is its attribute.                    *)

Column(name, caption, role, type, calc, formula) ==
    [name |-> name, caption |-> caption, role |-> role, type |-> type, calc |-> calc, formula |-> formula]

\* lines 198-202: the identifier with and without brackets
IdToHumanPut(id_to_human, col) ==
    IF col.name # <<>> /\ col.caption # <<>>
    THEN DictPut(DictPut(id_to_human, col.name, <<"[">> \o col.caption \o <<"]">>),
                 RemoveChars(col.name, {"[", "]"}), col.caption)
    ELSE id_to_human

\* line 204
DisplayNameOf(col) == IF col.caption # <<>> THEN col.caption ELSE col.name

\* line 208
KbNormKey(display_name) == RemoveChars(Lower(RemoveChars(display_name, {"[", "]"})), {" ", "-"})

\* lines 210-224
InfoOf(col) ==
    [raw_name |-> DisplayNameOf(col),
     norm_key |-> KbNormKey(DisplayNameOf(col)),
     role |-> IF col.role # "" THEN col.role ELSE "dimension",
     datatype |-> IF col.type # "" THEN col.type ELSE "string",
     is_calc |-> col.calc /\ col.formula # <<>>,
     formula |-> IF col.calc /\ col.formula # <<>> THEN col.formula ELSE <<>>]

\* as FieldMapPut, but the first entry of a key stays
FieldMapPutOnce(field_map, norm_key, info) ==
    IF \E i \in DOMAIN field_map : field_map[i].key = norm_key THEN field_map
    ELSE Append(field_map, [key |-> norm_key, val |-> info])

\* line 226: field_map[norm_key] = info
FieldMapPut(field_map, norm_key, info) == DictPut(field_map, norm_key, info)

\* lines 192-226: one column of the inner loop
KbColumn ==
    /\ fn.pc = "build"
    /\ fn.rest # <<>>
    /\ Head(fn.rest) # <<>>
    /\ LET col == Head(Head(fn.rest)) IN
       fn' = [fn EXCEPT
                !.rest = <<Tail(Head(fn.rest))>> \o Tail(fn.rest),
                !.id_to_human = IdToHumanPut(fn.id_to_human, col),
                !.field_map = IF DisplayNameOf(col) = <<>> THEN fn.field_map
                              ELSE FieldMapPut(fn.field_map, InfoOf(col).norm_key, InfoOf(col))]
    /\ UNCHANGED <<wfvars, rq, ex, tr>>

\* line 191: the columns of a datasource are done, the next one is taken
KbDatasource ==
    /\ fn.pc = "build"
    /\ fn.rest # <<>>
    /\ Head(fn.rest) = <<>>
    /\ fn' = [fn EXCEPT !.rest = Tail(fn.rest)]
    /\ UNCHANGED <<wfvars, rq, ex, tr>>

\* line 228: return id_to_human, field_map
KbReturn ==
    /\ fn.pc = "build"
    /\ fn.rest = <<>>
    /\ fn' = [fn EXCEPT !.pc = "built"]
    /\ UNCHANGED <<wfvars, rq, ex, tr>>

-----------------------------------------------------------------------------
(* services/intercom_service.py: the HTTP attempts of one publisher call   *)

\* _request_with_retry(..., max_retries: int = 3, retry_delay: float = 2.0)
max_retries == 3
retry_delay == 2

MaxCalls == 2

Methods == {"create_article", "update_article", "delete_article"}

\* create_article and update_article go through _request_with_retry;
\* delete_article calls requests.delete once
UsesRetry(method) == method \in {"create_article", "update_article"}

\* rq: pc, the method called, plan (what the server answers to the 1st, 2nd,
\* 3rd attempt of the call), attempt (the attempt under way), waited (seconds
\* slept), status (what the call returned), calls (calls made so far)
RqIdle(n) ==
    [pc |-> "idle", method |-> "none", plan |-> <<>>, attempt |-> 0, waited |-> 0,
     status |-> "none", calls |-> n]

\* as AttemptsLeft, for a call that gives up at once
AttemptsLeftNever(attempt) == FALSE

\* line 68: if attempt < max_retries
AttemptsLeft(attempt) == attempt < max_retries

\* the service is called; the first attempt is under way
RqCall ==
    /\ rq.pc = "idle"
    /\ rq.calls < MaxCalls
    /\ \E m \in Methods, plan \in [1..max_retries -> BOOLEAN] :
        rq' = [pc |-> "request", method |-> m, plan |-> plan, attempt |-> 1,
               waited |-> 0, status |-> "none", calls |-> rq.calls + 1]
    /\ UNCHANGED <<wfvars, ex, tr, fn>>

\* lines 57-61 / 380-393: the attempt succeeds: the call returns success
RqSuccess ==
    /\ rq.pc = "request"
    /\ rq.plan[rq.attempt]
    /\ rq' = [rq EXCEPT !.pc = "returned", !.status = "success"]
    /\ UNCHANGED <<wfvars, ex, tr, fn>>

\* lines 62-71: the attempt fails inside _request_with_retry with attempts
\* left: time.sleep(retry_delay), then the next attempt
RqRetry ==
    /\ rq.pc = "request"
    /\ ~rq.plan[rq.attempt]
    /\ UsesRetry(rq.method)
    /\ AttemptsLeft(rq.attempt)
    /\ rq' = [rq EXCEPT !.attempt = @ + 1, !.waited = @ + retry_delay]
    /\ UNCHANGED <<wfvars, ex, tr, fn>>

\* lines 72-74 with 134-138 / 186-190, and 395-398: the last attempt of
\* _request_with_retry fails, or the one attempt of delete_article fails:
\* the call returns status error
RqError ==
    /\ rq.pc = "request"
    /\ ~rq.plan[rq.attempt]
    /\ ~UsesRetry(rq.method) \/ ~AttemptsLeft(rq.attempt)
    /\ rq' = [rq EXCEPT !.pc = "returned", !.status = "error"]
    /\ UNCHANGED <<wfvars, ex, tr, fn>>

\* the caller has the result; the service is free for the next call
RqDone ==
    /\ rq.pc = "returned"
    /\ rq' = RqIdle(rq.calls)
    /\ UNCHANGED <<wfvars, ex, tr, fn>>

-----------------------------------------------------------------------------
(* services/workflow.py: execute and execute_update as steps               *)

relvars == <<f2c, c2a, work, updated, failed, outcomes, built>>
sheets == <<chart_library, data_dict, article_library>>
others == <<rq, ex, tr, fn>>

\* a row of the data dictionary sheet that was not written by
\* log_processed_item: it has a name and a url, no article id and no html
LegacyRow == Row(FieldQ, <<"Q", "q">>, "u0", 0, <<>>)

WfInit ==
    /\ pc = "idle"
    /\ mode = "execute"
    /\ runs = 0
    /\ faults = 0
    /\ article = [title |-> <<>>, id |-> 0]
    /\ todo = <<>>
    /\ processed = <<>>
    /\ skipped = <<>>
    /\ article_intercom_url = ""
    /\ f2c = <<>>
    /\ c2a = <<>>
    /\ work = <<>>
    /\ updated = 0
    /\ failed = 0
    /\ outcomes = <<>>
    /\ built = {}
    /\ all_comparisons = <<>>
    /\ chart_library = <<>>
    /\ data_dict \in {<<>>, <<LegacyRow>>}
    /\ article_library = <<>>
    /\ intercom = <<>>
    /\ uses = {}

\* the ends of a run by an exception: "aborted" is raised by execute_update
\* itself, the others are exceptions of a collaborator
Aborts == {"aborted", "abort_source", "abort_auth", "abort_ledger"}

\* the locals of a run as it starts
RunLocals ==
    /\ processed' = <<>>
    /\ skipped' = <<>>
    /\ article_intercom_url' = ""
    /\ f2c' = <<>>
    /\ c2a' = <<>>
    /\ work' = <<>>
    /\ updated' = 0
    /\ failed' = 0
    /\ outcomes' = <<>>
    /\ built' = {}
    /\ all_comparisons' = <<>>

\* execute, lines 242-287: the article is downloaded, its charts are listed
StartExecute ==
    /\ pc = "idle"
    /\ runs < MaxRuns
    /\ \E id \in ArticleIds :
        /\ article' = [title |-> Strip(BeforeParen(ArticleTitleOf(id))), id |-> 0]
        /\ todo' = ArticleChartsOf(id)
    /\ mode' = "execute"
    /\ runs' = runs + 1
    /\ pc' = "charts"
    /\ RunLocals
    /\ UNCHANGED <<faults, sheets, intercom, uses, others>>

\* execute, lines 242-272 and 439-443: download_article or sign_in raises,
\* the exception leaves execute
FailExecute ==
    /\ pc = "idle"
    /\ runs < MaxRuns
    /\ faults < MaxFaults
    /\ \E id \in ArticleIds, cause \in {"abort_source", "abort_auth"} :
        /\ article' = [title |-> IF cause = "abort_auth"
                                 THEN Strip(BeforeParen(ArticleTitleOf(id))) ELSE <<>>,
                       id |-> 0]
        /\ pc' = cause
    /\ todo' = <<>>
    /\ mode' = "execute"
    /\ runs' = runs + 1
    /\ faults' = faults + 1
    /\ RunLocals
    /\ UNCHANGED <<sheets, intercom, uses, others>>

\* execute_update, lines 470-520: the article must be in the article sheet
StartUpdate ==
    /\ pc = "idle"
    /\ runs < MaxRuns
    /\ \E id \in ArticleIds :
        LET article_title == Strip(BeforeParen(ArticleTitleOf(id)))
            lookup_result == LookupArticleByTitle(article_library, article_title)
        IN /\ article' = [title |-> article_title, id |-> lookup_result.intercom_id]
           /\ IF lookup_result.exists
              THEN todo' = ArticleChartsOf(id) /\ pc' = "charts"
              ELSE todo' = <<>> /\ pc' = "aborted"
    /\ mode' = "update"
    /\ runs' = runs + 1
    /\ RunLocals
    /\ UNCHANGED <<faults, sheets, intercom, uses, others>>

ChartFaults == {"workbook", "context", "chart", "ledger"}

\* as ChartDone, but a chart whose processing raised goes to neither list
ChartDoneDropsErrors(r) ==
    /\ data_dict' = r.w.dd
    /\ chart_library' = r.w.cl
    /\ intercom' = r.w.ic
    /\ uses' = uses
    /\ IF r.res.status = "skipped"
       THEN /\ processed' = processed
            /\ skipped' = IF r.res.reason = "Error" THEN skipped ELSE Append(skipped, r.res)
       ELSE processed' = Append(processed, r.res) /\ skipped' = skipped

\* lines 296-322 / 528-547: the result goes to processed_charts or to
\* skipped_charts
ChartDone(r) ==
    /\ data_dict' = r.w.dd
    /\ chart_library' = r.w.cl
    /\ intercom' = r.w.ic
    /\ IF r.res.status = "skipped"
       THEN skipped' = Append(skipped, r.res) /\ processed' = processed
       ELSE processed' = Append(processed, r.res) /\ skipped' = skipped
    /\ uses' = IF r.res.status = "success" /\ r.res.chart_article_id # 0
               THEN uses \cup {<<r.res.title, r.res.field_mapping[i].name, runs>> :
                                i \in DOMAIN r.res.field_mapping}
               ELSE uses

\* lines 289-322 / 522-547: one chart of the loop
ProcessChart ==
    /\ pc = "charts"
    /\ todo # <<>>
    /\ mode \in {"execute", "update"}
    /\ \E flt \in SUBSET ChartFaults, bad \in SUBSET DOMAIN ChartFieldsOf(Head(todo)) :
        /\ faults + Cardinality(flt) + Cardinality(bad) <= MaxFaults
        /\ faults' = faults + Cardinality(flt) + Cardinality(bad)
        /\ "ledger" \in flt => mode = "execute"
        /\ ChartDone(TryProcessSingleChart(
                        [dd |-> data_dict, cl |-> chart_library, ic |-> intercom],
                        Head(todo), mode = "execute", flt, bad))
    /\ todo' = Tail(todo)
    /\ UNCHANGED <<pc, mode, runs, article, article_intercom_url, relvars,
                   article_library, all_comparisons, others>>

\* charts_for_article, lines 333-340 / 563-571
ChartsForArticle ==
    LET ok == SelectStatus(processed, "success") IN
    [i \in DOMAIN ok |-> [title |-> ok[i].title, intercom_url |-> ok[i].chart_intercom_url]]

\* execute, lines 330-373 and 407-408: the article is created and logged
PublishArticle ==
    /\ pc = "charts"
    /\ todo = <<>>
    /\ mode = "execute"
    /\ IF ChartsForArticle = <<>>
       THEN /\ pc' = "done"
            /\ UNCHANGED <<faults, article_intercom_url, article_library, intercom>>
       ELSE \E ok \in BOOLEAN :
            /\ faults + (IF ok THEN 0 ELSE 1) <= MaxFaults
            /\ faults' = faults + (IF ok THEN 0 ELSE 1)
            /\ LET article_html == FormatArticleWithChartsHtml(ChartsForArticle)
                   article_result == CreateArticle(intercom, article_html, ok)
               IN /\ intercom' = article_result.ic
                  /\ IF article_result.status = "success"
                     THEN /\ article_intercom_url' = article_result.article_url
                          /\ article_library' =
                                LogProcessedItem(article_library, article.title,
                                                 article.title, article_result.article_url,
                                                 article_result.article_id, article_html)
                          /\ pc' = "build_f2c"
                     ELSE /\ pc' = "done"
                          /\ UNCHANGED <<article_intercom_url, article_library>>
    /\ UNCHANGED <<mode, runs, article, todo, processed, skipped, relvars,
                   chart_library, data_dict, uses, all_comparisons, others>>

\* execute_update, lines 573-631 and 681: the article is updated in place;
\* a failed update, or no chart at all, raises
UpdateMainArticle ==
    /\ pc = "charts"
    /\ todo = <<>>
    /\ mode = "update"
    /\ IF ChartsForArticle = <<>>
       THEN /\ pc' = "aborted"
            /\ UNCHANGED <<faults, article_intercom_url, article_library, intercom>>
       ELSE \E ok \in BOOLEAN :
            /\ faults + (IF ok THEN 0 ELSE 1) <= MaxFaults
            /\ faults' = faults + (IF ok THEN 0 ELSE 1)
            /\ LET article_html == FormatArticleWithChartsHtml(ChartsForArticle)
                   update_result == UpdateArticle(intercom, article.id, article_html, ok)
               IN /\ intercom' = update_result.ic
                  /\ IF update_result.status = "success"
                     THEN /\ article_intercom_url' = update_result.article_url
                          /\ article_library' =
                                LogProcessedItem(article_library, article.title,
                                                 article.title, update_result.article_url,
                                                 article.id, article_html)
                          /\ pc' = "build_f2c"
                     ELSE /\ pc' = "aborted"
                          /\ UNCHANGED <<article_intercom_url, article_library>>
    /\ UNCHANGED <<mode, runs, article, todo, processed, skipped, relvars,
                   chart_library, data_dict, uses, all_comparisons, others>>

\* as StepAfter, without the build of the chart -> articles map
StepAfterFieldsToCharts(step) ==
    CASE step = "build_f2c" -> "fields_begin"
      [] step = "fields" -> "charts_begin"
      [] step = "build_c2a" -> "charts_begin"
      [] OTHER -> "done"

\* lines 375-405 / 633-663: the relationship steps in the order of the code
StepAfter(step) ==
    CASE step = "build_f2c" -> "fields_begin"
      [] step = "fields" -> "build_c2a"
      [] step = "build_c2a" -> "charts_begin"
      [] OTHER -> "done"

\* the keys the current run gives the field -> charts map
CurrentFieldKeys == Keys(CurrentFieldEdges(<<>>, processed))

\* step 1: build_field_to_charts_map; bad: the keys whose ledger query fails
BuildF2C ==
    /\ pc = "build_f2c"
    /\ \E bad \in SUBSET CurrentFieldKeys :
        /\ faults + Cardinality(bad) <= MaxFaults
        /\ faults' = faults + Cardinality(bad)
        /\ f2c' = BuildFieldToChartsMap(processed, chart_library, bad)
        /\ built' = built \cup {<<"f2c", bad>>}

    /\ pc' = StepAfter("build_f2c")
    /\ UNCHANGED <<mode, runs, article, todo, processed, skipped, article_intercom_url,
                   c2a, work, updated, failed, outcomes, sheets, intercom, uses, all_comparisons, others>>

\* step 2, lines 163-213: the counters and the fields to update
BeginUpdateFields ==
    /\ pc = "fields_begin"
    /\ work' = CollectFields(<<>>, processed, f2c, data_dict)
    /\ updated' = 0
    /\ failed' = 0
    /\ outcomes' = <<>>
    /\ pc' = "fields"
    /\ UNCHANGED <<mode, runs, faults, article, todo, processed, skipped,
                   article_intercom_url, f2c, c2a, built, sheets, intercom, uses, all_comparisons, others>>

\* step 2, lines 195-203: lookup_article_by_title of a skipped field raises
\* (its check_duplicate, on a failed read of the sheet); nothing catches it
\* before the caller of execute
FieldLookupRaises ==
    /\ pc = "fields_begin"
    /\ faults < MaxFaults
    /\ \E i \in DOMAIN processed :
          /\ processed[i].status = "success"
          /\ \E j \in DOMAIN processed[i].fields_skipped :
                /\ processed[i].fields_skipped[j].field_name # <<>>
                /\ HasKey(f2c, processed[i].fields_skipped[j].field_name)
    /\ faults' = faults + 1
    /\ pc' = "abort_ledger"
    /\ UNCHANGED <<mode, runs, article, todo, processed, skipped,
                   article_intercom_url, relvars, sheets, intercom, uses, all_comparisons, others>>

\* as Remaining, but an update that fails ends the loop
RemainingStop(items, res) == IF res = "error" THEN <<>> ELSE Tail(items)

\* the loop goes on to the next object whatever the result of this one
Remaining(items, res) == Tail(items)

\* as FieldStep, but the sheet is written whatever update_article returns
FieldStepLogsAlways(it, map, dd, ic, ok) ==
    IF ~FieldEligible(it, map)
    THEN [dd |-> dd, ic |-> ic, res |-> "none", wrote |-> FALSE,
          updated_count |-> 0, failed_count |-> 0]
    ELSE [dd |-> LogProcessedItem(dd, it.name, it.human_name, it.intercom_url, it.article_id,
                     InjectRelatedChartsToFieldHtml(it.old_html, MapGet(map, it.name))),
          ic |-> UpdateArticle(ic, it.article_id,
                     InjectRelatedChartsToFieldHtml(it.old_html, MapGet(map, it.name)), ok).ic,
          res |-> IF ok THEN "success" ELSE "error", wrote |-> ok,
          updated_count |-> IF ok THEN 1 ELSE 0, failed_count |-> IF ok THEN 0 ELSE 1]

\* lines 216-248: the body of the loop for one field.  ok = FALSE is an
\* update_article that returns status error.
FieldStep(it, map, dd, ic, ok) ==
    IF ~FieldEligible(it, map)
    THEN [dd |-> dd, ic |-> ic, res |-> "none", wrote |-> FALSE,
          updated_count |-> 0, failed_count |-> 0]
    ELSE LET updated_html == InjectRelatedChartsToFieldHtml(it.old_html, MapGet(map, it.name))
             intercom_result == UpdateArticle(ic, it.article_id, updated_html, ok)
         IN IF intercom_result.status = "success"
            THEN [dd |-> LogProcessedItem(dd, it.name, it.human_name, it.intercom_url,
                                          it.article_id, updated_html),
                  ic |-> intercom_result.ic, res |-> "success", wrote |-> TRUE,
                  updated_count |-> 1, failed_count |-> 0]
            ELSE [dd |-> dd, ic |-> intercom_result.ic, res |-> "error", wrote |-> FALSE,
                  updated_count |-> 0, failed_count |-> 1]

\* step 2, lines 215-248: one field of the loop
UpdateField ==
    /\ pc = "fields"
    /\ work # <<>>
    /\ \E ok \in BOOLEAN :
        /\ ok \/ (FieldEligible(Head(work), f2c) /\ faults < MaxFaults)
        /\ faults' = faults + (IF ok THEN 0 ELSE 1)
        /\ LET st == FieldStep(Head(work), f2c, data_dict, intercom, ok)
           IN /\ data_dict' = st.dd
              /\ intercom' = st.ic
              /\ updated' = updated + st.updated_count
              /\ failed' = failed + st.failed_count
              /\ outcomes' = Append(outcomes, [name |-> Head(work).name, res |-> st.res,
                                               wrote |-> st.wrote])
              /\ work' = Remaining(work, st.res)
    /\ UNCHANGED <<pc, mode, runs, article, todo, processed, skipped,
                   article_intercom_url, f2c, c2a, built, chart_library,
                   article_library, uses, all_comparisons, others>>

\* step 2 returns, line 250
EndUpdateFields ==
    /\ pc = "fields"
    /\ work = <<>>
    /\ pc' = StepAfter("fields")
    /\ UNCHANGED <<mode, runs, faults, article, todo, processed, skipped,
                   article_intercom_url, relvars, sheets, intercom, uses, all_comparisons, others>>

\* the keys the current run gives the chart -> articles map
CurrentChartKeys ==
    Keys(CurrentArticleEdges(<<>>, processed, Edge(article.title, article_intercom_url)))

\* step 3: build_chart_to_articles_map
BuildC2A ==
    /\ pc = "build_c2a"
    /\ \E bad \in SUBSET CurrentChartKeys :
        /\ faults + Cardinality(bad) <= MaxFaults
        /\ faults' = faults + Cardinality(bad)
        /\ c2a' = BuildChartToArticlesMap(processed, article.title, article_intercom_url,
                                          article_library, bad)
        /\ built' = built \cup {<<"c2a", bad>>}
    /\ pc' = StepAfter("build_c2a")
    /\ UNCHANGED <<mode, runs, article, todo, processed, skipped, article_intercom_url,
                   f2c, work, updated, failed, outcomes, sheets, intercom, uses, all_comparisons, others>>

\* step 4, lines 276-288: the counters, all_charts = processed + skipped
BeginUpdateCharts ==
    /\ pc = "charts_begin"
    /\ work' = processed \o skipped
    /\ updated' = 0
    /\ failed' = 0
    /\ outcomes' = <<>>
    /\ pc' = "charts_rel"
    /\ UNCHANGED <<mode, runs, faults, article, todo, processed, skipped,
                   article_intercom_url, f2c, c2a, built, sheets, intercom, uses, all_comparisons, others>>

\* lines 290-379: the body of the loop for one chart result
ChartStep(r, map, cl, ic, ok) ==
    LET info == ChartInfo(r, cl) IN
    IF ~ChartEligible(info, map)
    THEN [cl |-> cl, ic |-> ic, res |-> "none", wrote |-> FALSE,
          updated_count |-> 0, failed_count |-> 0]
    ELSE LET updated_html == InjectRelatedArticlesToChartHtml(info.chart_html,
                                                              MapGet(map, info.chart_title))
             intercom_result == UpdateArticle(ic, info.chart_id, updated_html, ok)
         IN IF intercom_result.status = "success"
            THEN [cl |-> LogProcessedItem(cl, info.original_chart_name, info.chart_title,
                                          info.chart_url, info.chart_id, updated_html),
                  ic |-> intercom_result.ic, res |-> "success", wrote |-> TRUE,
                  updated_count |-> 1, failed_count |-> 0]
            ELSE [cl |-> cl, ic |-> intercom_result.ic, res |-> "error", wrote |-> FALSE,
                  updated_count |-> 0, failed_count |-> 1]

\* step 4, lines 290-379: one chart of the loop
UpdateChart ==
    /\ pc = "charts_rel"
    /\ work # <<>>
    /\ \E ok \in BOOLEAN :
        /\ ok \/ (ChartEligible(ChartInfo(Head(work), chart_library), c2a)
                  /\ faults < MaxFaults)
        /\ faults' = faults + (IF ok THEN 0 ELSE 1)
        /\ LET st == ChartStep(Head(work), c2a, chart_library, intercom, ok)
           IN /\ chart_library' = st.cl
              /\ intercom' = st.ic
              /\ updated' = updated + st.updated_count
              /\ failed' = failed + st.failed_count
              /\ outcomes' = Append(outcomes, [name |-> Head(work).title, res |-> st.res,
                                               wrote |-> st.wrote])
              /\ work' = Remaining(work, st.res)
    /\ UNCHANGED <<pc, mode, runs, article, todo, processed, skipped,
                   article_intercom_url, f2c, c2a, built, data_dict,
                   article_library, uses, all_comparisons, others>>

\* step 4, lines 314-322: lookup_article_by_title of a skipped chart raises
ChartLookupRaises ==
    /\ pc = "charts_rel"
    /\ work # <<>>
    /\ faults < MaxFaults
    /\ Head(work).status = "skipped"
    /\ (Head(work).chart_name # <<>> \/ Head(work).title # <<>>)
    /\ faults' = faults + 1
    /\ pc' = "abort_ledger"
    /\ UNCHANGED <<mode, runs, article, todo, processed, skipped,
                   article_intercom_url, relvars, sheets, intercom, uses, all_comparisons, others>>

\* step 4 returns, line 383
EndUpdateCharts ==
    /\ pc = "charts_rel"
    /\ work = <<>>
    /\ pc' = StepAfter("charts_rel")
    /\ UNCHANGED <<mode, runs, faults, article, todo, processed, skipped,
                   article_intercom_url, relvars, sheets, intercom, uses, all_comparisons, others>>

\* the run returns its result, or its exception, and its locals are gone;
\* the next run may start
Return ==
    /\ pc \in {"done"} \cup Aborts
    /\ pc' = "idle"
    /\ mode' = "execute"
    /\ article' = [title |-> <<>>, id |-> 0]
    /\ todo' = <<>>
    /\ RunLocals
    /\ UNCHANGED <<runs, faults, sheets, intercom, uses, others>>

Next ==
    \/ StartExecute
    \/ FailExecute
    \/ StartUpdate
    \/ ProcessChart
    \/ PublishArticle
    \/ UpdateMainArticle
    \/ BuildF2C
    \/ BeginUpdateFields
    \/ FieldLookupRaises
    \/ UpdateField
    \/ EndUpdateFields
    \/ BuildC2A
    \/ BeginUpdateCharts
    \/ UpdateChart
    \/ ChartLookupRaises
    \/ EndUpdateCharts
    \/ Return

Init == WfInit /\ rq = RqIdle(0) /\ ex = ExIdle /\ tr = TrIdle /\ fn = FnIdle

Spec == Init /\ [][Next]_vars

-----------------------------------------------------------------------------
(* Properties of the edge maps                                             *)

Built(m) == \E b \in built : b[1] = m

\* the keys whose ledger query failed when the map was built
LostKeys(m) == UNION {b[2] : b \in {x \in built : x[1] = m}}

\* titles the sheet returns for a text: the rows whose html contains it
LedgerTitles(sheet, text) ==
    {Strip(sheet[i].human) : i \in {r \in DOMAIN sheet : Contains(sheet[r].html, text)}}

\* titles of the charts of the current run that use the field
RunChartTitles(field_name) ==
    {processed[i].title : i \in {c \in DOMAIN processed :
        /\ processed[c].status = "success"
        /\ processed[c].chart_intercom_url # ""
        /\ \E m \in DOMAIN processed[c].field_mapping :
              processed[c].field_mapping[m].name = field_name}}

NoTitleTwice(edges) ==
    \A a, b \in DOMAIN edges : a # b => edges[a].title # edges[b].title

\* the field -> charts map, read right after it was built
F2CIsUnion ==
    pc = "fields_begin" =>
        \A i \in DOMAIN f2c :
            /\ Titles(f2c[i].val) =
                  RunChartTitles(f2c[i].key)
                  \cup (IF f2c[i].key \in LostKeys("f2c") THEN {}
                        ELSE LedgerTitles(chart_library, f2c[i].key))
            /\ NoTitleTwice(f2c[i].val)

\* the chart -> articles map, read right after it was built
C2AIsUnion ==
    pc = "charts_begin" =>
        \A i \in DOMAIN c2a :
            /\ Titles(c2a[i].val) =
                  {article.title}
                  \cup (IF c2a[i].key \in LostKeys("c2a") THEN {}
                        ELSE LedgerTitles(article_library, c2a[i].key))
            /\ NoTitleTwice(c2a[i].val)

\* C1: every list of the two maps is the union by title of the edges of the
\* current run and of the edges the ledger returns for the key, and holds
\* no title twice.
C1_UnionByTitle == F2CIsUnion /\ C2AIsUnion

\* the ledger returns one title from several rows, the run's own chart among
\* them, and the list joins a chart of the run with a chart of the ledger only
C1_Witness ==
    /\ pc = "fields_begin"
    /\ \E i \in DOMAIN f2c :
        /\ LostKeys("f2c") = {}
        /\ \E a, b \in DOMAIN chart_library :
              /\ a # b
              /\ Contains(chart_library[a].html, f2c[i].key)
              /\ Contains(chart_library[b].html, f2c[i].key)
              /\ Strip(chart_library[a].human) = Strip(chart_library[b].human)
              /\ Strip(chart_library[a].human) \in RunChartTitles(f2c[i].key)
        /\ RunChartTitles(f2c[i].key) # {}
        /\ LedgerTitles(chart_library, f2c[i].key) \ RunChartTitles(f2c[i].key) # {}

\* C2: relationships accumulate across runs: a chart that an earlier run
\* published and logged with field F among the keys of its field_mapping is
\* listed under F by build_field_to_charts_map of every later run that
\* uses F (no external failure in between, the ledger query answered).
C2_Accumulates ==
    (pc = "fields_begin" /\ faults = 0) =>
        \A i \in DOMAIN f2c :
            \A u \in uses :
                (u[2] = f2c[i].key /\ u[3] < runs) => u[1] \in Titles(f2c[i].val)

-----------------------------------------------------------------------------
(* Properties of the propagation                                           *)

Last(q) == q[Len(q)]

\* a step of one of the two loops has just handled an object
LoopStep == pc \in {"fields", "charts_rel"} /\ work # <<>> /\ work' # work

\* C3: when update_article does not return success for an object, no
\* log_processed_item is made for it, every sheet keeps its content, and the
\* object is counted as failed and not as updated.
C3_FailedUpdateKeepsLedger ==
    [][(LoopStep /\ Last(outcomes').res = "error") =>
          /\ ~Last(outcomes').wrote
          /\ data_dict' = data_dict
          /\ chart_library' = chart_library
          /\ article_library' = article_library
          /\ failed' = failed + 1
          /\ updated' = updated]_vars

\* a field whose update failed: counted failed, its row still without the
\* related section
C3_Witness ==
    /\ pc = "fields"
    /\ failed = 1
    /\ outcomes # <<>>
    /\ Last(outcomes).res = "error"
    /\ FirstRow(data_dict, Last(outcomes).name) # 0
    /\ ~HasAtom(data_dict[FirstRow(data_dict, Last(outcomes).name)].html, RCMarker)

\* the object at the head of the loop has no edges, no remote id or no html
HeadLacks ==
    \/ /\ pc = "fields"
       /\ \/ MapGet(f2c, Head(work).name) = <<>>
          \/ Head(work).article_id = 0
          \/ Head(work).old_html = <<>>
    \/ /\ pc = "charts_rel"
       /\ \/ MapGet(c2a, ChartInfo(Head(work), chart_library).chart_title) = <<>>
          \/ ChartInfo(Head(work), chart_library).chart_id = 0
          \/ ChartInfo(Head(work), chart_library).chart_html = <<>>

\* C4: an object without edges, without a remote article id or without a
\* prior html is counted neither updated nor failed; the publisher and the
\* sheets are left as they are.
C4_IneligibleUntouched ==
    [][(LoopStep /\ HeadLacks) =>
          /\ updated' = updated
          /\ failed' = failed
          /\ intercom' = intercom
          /\ data_dict' = data_dict
          /\ chart_library' = chart_library
          /\ article_library' = article_library
          /\ ~Last(outcomes').wrote]_vars

\* the data dictionary holds a row without article id, and the loop has
\* passed over a chart that is in the sheet but has no edges in the map
C4_Witness ==
    /\ pc = "charts_rel"
    /\ outcomes # <<>>
    /\ Last(outcomes).res = "none"
    /\ updated + failed < Len(outcomes)
    /\ \E i \in DOMAIN skipped :
          /\ skipped[i].title = Last(outcomes).name
          /\ ChartInfo(skipped[i], chart_library).chart_id # 0
          /\ MapGet(c2a, skipped[i].title) = <<>>
    /\ \E i \in DOMAIN data_dict : data_dict[i].id = 0

Count(q, res) == Cardinality({i \in DOMAIN q : q[i].res = res})

\* the objects of the loop that has just ended, by name
LoopNames ==
    IF pc = "fields"
    THEN LET items == CollectFields(<<>>, processed, f2c, data_dict) IN
         [i \in DOMAIN items |-> items[i].name]
    ELSE [i \in DOMAIN (processed \o skipped) |-> (processed \o skipped)[i].title]

\* the row the sheet holds for an object of the loop carries the section
RowHasSection(name) ==
    IF pc = "fields"
    THEN \E i \in DOMAIN data_dict :
            data_dict[i].orig = name /\ HasAtom(data_dict[i].html, RCMarker)
    ELSE \E i \in DOMAIN chart_library :
            chart_library[i].human = name /\ HasAtom(chart_library[i].html, RAMarker)

-----------------------------------------------------------------------------
(* Order of the relationship steps                                         *)

\* a propagation has issued a publisher update
UpdateIssued ==
    /\ pc \in {"fields", "charts_rel"}
    /\ \E i \in DOMAIN outcomes : outcomes[i].res # "none"

\* C5, as the specification states it: both maps are built before any
\* propagation issues its first publisher update or ledger write.
C5_BothMapsFirst == UpdateIssued => (Built("f2c") /\ Built("c2a"))

\* C5, as the code orders the steps: the field -> charts map is complete
\* before the propagation to the fields begins; the chart -> articles map
\* is built after that propagation, and is complete before the propagation
\* to the charts begins.
C5_MapBuiltBeforeItsPropagation ==
    /\ pc \in {"fields_begin", "fields"} =>
          /\ Built("f2c")
          /\ ~Built("c2a")
          /\ f2c = BuildFieldToChartsMap(processed, chart_library, LostKeys("f2c"))
    /\ pc \in {"charts_begin", "charts_rel"} =>
          /\ Built("f2c")
          /\ Built("c2a")
          /\ c2a = BuildChartToArticlesMap(processed, article.title, article_intercom_url,
                                           article_library, LostKeys("c2a"))

\* a field has been updated with the chart -> articles map not yet built
C5_Witness ==
    /\ pc = "fields"
    /\ \E i \in DOMAIN outcomes : outcomes[i].res = "success"
    /\ Built("f2c")
    /\ ~Built("c2a")
    /\ c2a = <<>>

-----------------------------------------------------------------------------
(* The other machines: each leaves the variables of the workflow at rest   *)

WfIdle == WfInit /\ data_dict = <<>>

NextRetry == RqCall \/ RqSuccess \/ RqRetry \/ RqError \/ RqDone

InitRetry == WfIdle /\ rq = RqIdle(0) /\ ex = ExIdle /\ tr = TrIdle /\ fn = FnIdle

SpecRetry == InitRetry /\ [][NextRetry]_vars

\* C7: create_article, update_article and delete_article are each retried:
\* a call whose first HTTP attempt fails and whose second attempt would
\* succeed returns status success, after at most max_retries attempts with
\* retry_delay seconds between attempts.
C7_EachCallRetried ==
    (rq.pc = "returned" /\ ~rq.plan[1] /\ rq.plan[2]) =>
        /\ rq.status = "success"
        /\ rq.attempt <= max_retries
        /\ rq.waited = retry_delay * (rq.attempt - 1)

NextExtract == ExCall

InitExtract ==
    /\ WfIdle
    /\ fn = FnIdle
    /\ rq = RqIdle(0)
    /\ tr = TrIdle
    /\ \E shape \in Shapes, items \in UNION {[1..n -> ItemChoices] : n \in 0..MaxItems} :
          ex = [pc |-> "called", input |-> [shape |-> shape, items |-> items], out |-> <<>>]

SpecExtract == InitExtract /\ [][NextExtract]_vars

-----------------------------------------------------------------------------
(* _generate_context_tree, lines 319-326: the dependencies of a formula    *)

\* the characters of the formulas in code point order
CodeOrder == <<" ", "(", ")", "-", "/", "C", "M", "R", "[", "]", "a", "e", "g", "i", "n", "o", "r", "s", "t", "u", "v">>

Ord(c) == CHOOSE i \in DOMAIN CodeOrder : CodeOrder[i] = c

RECURSIVE LessStr(_, _)
\* Python: a < b for two strings
LessStr(a, b) ==
    IF b = <<>> THEN FALSE
    ELSE IF a = <<>> THEN TRUE
    ELSE IF Head(a) # Head(b) THEN Ord(Head(a)) < Ord(Head(b))
    ELSE LessStr(Tail(a), Tail(b))

\* the length of the longest run of characters other than "]" at the head
RECURSIVE NameRun(_)
NameRun(s) == IF s = <<>> \/ Head(s) = "]" THEN 0 ELSE 1 + NameRun(Tail(s))

RECURSIVE FindDeps(_)
\* re.findall(r"\[([^\]]+)\]", human_formula)
FindDeps(s) ==
    IF s = <<>> THEN <<>>
    ELSE LET n == NameRun(Tail(s)) IN
         IF Head(s) = "[" /\ n >= 1 /\ n + 1 < Len(s)
         THEN <<SubSeq(s, 2, n + 1)>> \o FindDeps(SubSeq(s, n + 3, Len(s)))
         ELSE FindDeps(Tail(s))

\* one more name into a sorted list without repetitions
InsertName(names, name) ==
    IF \E i \in DOMAIN names : names[i] = name THEN names
    ELSE LET k == Cardinality({i \in DOMAIN names : LessStr(names[i], name)})
         IN SubSeq(names, 1, k) \o <<name>> \o SubSeq(names, k + 1, Len(names))

RECURSIVE UniqueDepsUnsorted(_, _)
\* as UniqueDeps, keeping the order of the formula
UniqueDepsUnsorted(unique_deps, dependencies) ==
    IF dependencies = <<>> THEN unique_deps
    ELSE UniqueDepsUnsorted(
             IF \E i \in DOMAIN unique_deps : unique_deps[i] = Head(dependencies)
             THEN unique_deps ELSE Append(unique_deps, Head(dependencies)),
             Tail(dependencies))

RECURSIVE UniqueDeps(_, _)
\* line 323: sorted(list(set(dependencies)))
UniqueDeps(unique_deps, dependencies) ==
    IF dependencies = <<>> THEN unique_deps
    ELSE UniqueDeps(InsertName(unique_deps, Head(dependencies)), Tail(dependencies))

\* line 325: dep_name.lower().replace(" ", "").replace("-", "")
DepNorm(dep_name) == RemoveChars(Lower(dep_name), {" ", "-"})

Margin == <<"M", "a", "r", "g", "i", "n">>
Revenue == <<"R", "e", "v", "e", "n", "u", "e">>
Cost == <<"C", "o", "s", "t">>

Bracketed(name) == <<"[">> \o name \o <<"]">>

\* ([Revenue]-[Cost])/[Revenue]
MarginFormula ==
    <<"(">> \o Bracketed(Revenue) \o <<"-">> \o Bracketed(Cost) \o <<")", "/">>
    \o Bracketed(Revenue)

\* the norm_key of the registry's fields: Margin 1, Revenue 2, Cost 4; any
\* other name has no entry (3)
KeyOfNorm(norm) ==
    CASE norm = Lower(Margin) -> 1
      [] norm = Lower(Revenue) -> 2
      [] norm = Lower(Cost) -> 4
      [] OTHER -> 3

\* the dep_norm of the names of a formula, in the order of the loop
DepsOfFormula(formula) ==
    LET unique_deps == UniqueDeps(<<>>, FindDeps(TranslateFormula(formula, <<>>)))
    IN [i \in DOMAIN unique_deps |-> KeyOfNorm(DepNorm(unique_deps[i]))]

\* the registry of Margin, a calculation with that formula, over the native
\* fields Revenue and Cost
FormulaRegistry(formula) ==
    [k \in 1..11 |->
        CASE k = 1 -> Calc(DepsOfFormula(formula))
          [] k = 2 -> Native
          [] k = 3 -> Absent
          [] k = 4 -> Native
          [] k = 11 -> Native
          [] OTHER -> Calc(<<k + 1>>)]

FormulaPieces == {Bracketed(Revenue), Bracketed(Cost), Bracketed(Margin), <<"-">>, <<"/">>, <<" ">>}

Formulas == {MarginFormula} \cup {Flatten(t) : t \in UNION {[1..n -> FormulaPieces] : n \in 0..MaxTokens}}

NextTree ==
    \/ TrMaxDepth
    \/ TrLoop
    \/ TrNotFound
    \/ TrNative
    \/ TrCalc
    \/ TrCall
    \/ TrSkipSelf
    \/ TrReturn

\* extract_field_contexts, lines 58-65: the call for a top field
TreeOf(reg, root) ==
    [pc |-> "run", reg |-> reg, root |-> root, stack |-> <<Frame(root, 0, {})>>,
     lines |-> <<>>]

InitTree ==
    /\ WfIdle
    /\ rq = RqIdle(0)
    /\ ex = ExIdle
    /\ \/ fn = FnIdle /\ \E e1, e2 \in Entries : tr = TreeOf(Registry(e1, e2), 1)
       \/ fn = FnIdle /\ tr = TreeOf(Registry(Native, Native), 5)
       \/ \E formula \in Formulas :
             /\ fn = [pc |-> "formula", raw_formula |-> formula]
             /\ tr = TreeOf(FormulaRegistry(formula), 1)

SpecTree == InitTree /\ [][NextTree]_vars

\* the interpreter runs the call to its end
SpecTreeFair == SpecTree /\ WF_vars(NextTree)

-----------------------------------------------------------------------------
(* Properties of extract_field_names                                       *)

\* an item the deduplication looks at: a field text that is not 'none'
Kept(item) == item.field # <<>> /\ Lower(item.field) # NoneWord

\* positions of raw_items that hold the first occurrence of their key
FirstOccurrences(raw) ==
    {i \in DOMAIN raw :
        /\ Kept(raw[i])
        /\ \A j \in 1..(i - 1) : Kept(raw[j]) => NormKey(raw[j].field) # NormKey(raw[i].field)}

\* the k-th position of a set of positions
Nth(ps, k) == CHOOSE i \in ps : Cardinality({j \in ps : j <= i}) = k

DictGet(d, k) == d[CHOOSE i \in DOMAIN d : d[i].key = k].val

\* C8: the result holds one entry per normalized key, in the order of the
\* first occurrences; field text and display name are those of the first
\* occurrence; total_count is the length of field_names.
C8_FirstOccurrencePerKey ==
    ex.pc = "returned" =>
        LET raw == RawItems(ex.input)
            first == FirstOccurrences(raw)
            names == ex.out.field_names
        IN /\ Len(names) = Cardinality(first)
           /\ ex.out.total_count = Len(names)
           /\ \A a, b \in DOMAIN names : a # b => NormKey(names[a]) # NormKey(names[b])
           /\ \A k \in DOMAIN names :
                 /\ names[k] = raw[Nth(first, k)].field
                 /\ DictGet(ex.out.display_name_map, names[k])
                       = raw[Nth(first, k)].display_name
           /\ Len(ex.out.display_name_map) = Len(names)

\* Sales, 'sales ', Profit/'Net Profit' gives ['Sales', 'Profit'] with
\* display_name_map['Profit'] = 'Net Profit'; the display name of 'sales '
\* is dropped
C8_Witness ==
    /\ ex.pc = "returned"
    /\ ex.input.shape = "list"
    /\ ex.input.items = <<DictItem(Sales, <<>>), DictItem(SalesLowerSpace, Total),
                          DictItem(Profit, NetProfit)>>
    /\ ex.out.field_names = <<Sales, Profit>>
    /\ DictGet(ex.out.display_name_map, Profit) = NetProfit
    /\ DictGet(ex.out.display_name_map, Sales) = <<>>
    /\ ex.out.total_count = 2

-----------------------------------------------------------------------------
(* Properties of _generate_context_tree                                    *)

HasLine(kind, key, depth) ==
    \E l \in DOMAIN tr.lines :
        tr.lines[l].kind = kind /\ tr.lines[l].key = key /\ tr.lines[l].depth = depth

\* field 1 depends on field 2 and field 2 on field 1; the tree of field 1
CycleDone ==
    /\ tr.pc = "done"
    /\ tr.root = 1
    /\ tr.reg[1] = Calc(<<2>>)
    /\ tr.reg[2] = Calc(<<1>>)

\* C9: the generation ends for every registry, cyclic ones included, no
\* call is deeper than one past the depth bound, and the tree of a field
\* in a cycle of two ends with a loop line inside the depth bound.
C9_TerminatesWithLoopLine ==
    /\ <>(tr.pc = "done")
    /\ [](\A i \in DOMAIN tr.stack : tr.stack[i].depth <= MaxDepth + 1)
    /\ [](CycleDone =>
            /\ HasLine("loop", 1, 2)
            /\ \A l \in DOMAIN tr.lines :
                  tr.lines[l].kind # "max" /\ tr.lines[l].depth <= MaxDepth)

\* the tree of field 1 in the cycle of two has ended, with its loop line
C9_Witness ==
    /\ CycleDone
    /\ HasLine("calc", 1, 0)
    /\ HasLine("calc", 2, 1)
    /\ HasLine("loop", 1, 2)

\* field 1 depends on 2 and 3, both depend on the native field 4
DiamondDone ==
    /\ tr.pc = "done"
    /\ tr.root = 1
    /\ tr.reg[1] = Calc(<<2, 3>>)
    /\ tr.reg[2] = Calc(<<4>>)

\* C10: the visited set of a call holds the fields of the calls above it
\* (and its own once it has passed its checks), nothing of its siblings; a
\* loop line names a field of the path it was written under; a field
\* reached through two sibling branches is expanded under both.
C10_VisitedIsThePath ==
    tr.pc \in {"run", "done"} =>
        /\ \A i \in DOMAIN tr.stack :
              tr.stack[i].visited =
                  {tr.stack[j].key : j \in 1..(i - 1)}
                  \cup (IF tr.stack[i].entered THEN {tr.stack[i].key} ELSE {})
        /\ \A l \in DOMAIN tr.lines :
              tr.lines[l].kind = "loop" => tr.lines[l].key \in Range(tr.lines[l].path)
        /\ DiamondDone =>
              /\ \A l \in DOMAIN tr.lines : tr.lines[l].kind # "loop"
              /\ \E a, b \in DOMAIN tr.lines :
                    /\ tr.lines[a].kind = "native" /\ tr.lines[a].key = 4
                    /\ tr.lines[a].path = <<1, 2>>
                    /\ tr.lines[b].kind = "native" /\ tr.lines[b].key = 4
                    /\ tr.lines[b].path = <<1, 3>>

\* the diamond has been generated: field 4 under field 2 and under field 3
C10_Witness ==
    /\ DiamondDone
    /\ Cardinality({l \in DOMAIN tr.lines :
                       tr.lines[l].kind = "native" /\ tr.lines[l].key = 4
                       /\ tr.lines[l].depth = 2}) = 2

-----------------------------------------------------------------------------
(* _translate_formula: a formula of a few tokens, a table holding ID1 and  *)
(* ID10 in either order                                                    *)

NextTranslate == TfCall

InitTranslate ==
    /\ WfIdle
    /\ rq = RqIdle(0)
    /\ ex = ExIdle
    /\ tr = TrIdle
    /\ \E n \in 0..MaxTokens, c1 \in Captions, c10 \in Captions, first \in BOOLEAN :
         \E tokens \in [1..n -> FormulaTokens] :
            fn = [pc |-> "translate",
                  raw_formula |-> Flatten(tokens),
                  id_to_human |-> IF first
                                  THEN <<[key |-> ID1, val |-> c1], [key |-> ID10, val |-> c10]>>
                                  ELSE <<[key |-> ID10, val |-> c10], [key |-> ID1, val |-> c1]>>,
                  out |-> <<>>]

SpecTranslate == InitTranslate /\ [][NextTranslate]_vars

\* the caption the table gives an identifier
CaptionOf(id_to_human, id) ==
    (CHOOSE e \in Range(id_to_human) : e.key = id).val

\* the formula with every ID10 written as its caption and every other ID1 as its own
RECURSIVE Humanized(_, _)
Humanized(s, id_to_human) ==
    IF s = <<>> THEN <<>>
    ELSE IF Len(s) >= Len(ID10) /\ SubSeq(s, 1, Len(ID10)) = ID10
         THEN CaptionOf(id_to_human, ID10)
              \o Humanized(SubSeq(s, Len(ID10) + 1, Len(s)), id_to_human)
    ELSE IF Len(s) >= Len(ID1) /\ SubSeq(s, 1, Len(ID1)) = ID1
         THEN CaptionOf(id_to_human, ID1)
              \o Humanized(SubSeq(s, Len(ID1) + 1, Len(s)), id_to_human)
    ELSE <<Head(s)>> \o Humanized(Tail(s), id_to_human)

\* C11: with ID1 and ID10 both in the table, every occurrence of ID10 in the
\* formula is rewritten to the caption of ID10, never to the caption of ID1
\* followed by a leftover "0": the result is the formula, blanks normalised,
\* with each ID10 replaced by its caption and each remaining ID1 by its own.
C11_LongestFirst ==
    fn.pc = "translated" =>
        fn.out = Humanized(LStrip(Collapse(fn.raw_formula)), fn.id_to_human)

-----------------------------------------------------------------------------
(* clean_tableau_field_name: a text of a few tokens                        *)

NoneCased == {NoneWord, <<"N", "o", "n", "e">>, <<"N", "O", "N", "E">>}

NameTokens == NoneCased \cup {<<"y", "r", ":">>, <<"S", "U", "M", ":">>, <<"[">>, <<"]">>, <<"P">>, <<":", "q", "k">>, <<":", "1">>, <<"*">>, <<"/">>, <<" ">>, <<"[", "f", ".", "x", "]", ".">>}

\* '[INDEX] * [Capacity]' and '[A]/[A]'
IndexTimesCapacity == <<"[", "I", "N", "D", "E", "X", "]", " ", "*", " ", "[", "C", "a", "p", "a", "c", "i", "t", "y", "]">>
AOverA == <<"[", "A", "]", "/", "[", "A", "]">>

NextClean == CnCall

InitClean ==
    /\ WfIdle
    /\ rq = RqIdle(0)
    /\ ex = ExIdle
    /\ tr = TrIdle
    /\ \/ \E n \in 0..MaxTokens : \E tokens \in [1..n -> NameTokens] :
             fn = [pc |-> "clean", text |-> Flatten(tokens), out |-> <<>>, again |-> <<>>]
       \/ \E text \in {IndexTimesCapacity, AOverA} :
             fn = [pc |-> "clean", text |-> text, out |-> <<>>, again |-> <<>>]

SpecClean == InitClean /\ [][NextClean]_vars

\* C12: clean_tableau_field_name is idempotent: applied to its own output it
\* returns that output unchanged.
C12_Idempotent ==
    fn.pc = "cleaned" => fn.again = fn.out

\* C13: clean_tableau_field_name returns the literal "None" whenever its input
\* is empty or is the word none in any letter case.
C13_NoneInAnyCase ==
    (fn.pc = "cleaned" /\ (fn.text = <<>> \/ Lower(fn.text) = NoneWord)) =>
        fn.out = <<"N", "o", "n", "e">>

-----------------------------------------------------------------------------
(* Properties of the result of execute                                     *)

\* the charts of the source article of the current run, by formatted title
RunCharts ==
    LET id == CHOOSE a \in ArticleIds : Strip(BeforeParen(ArticleTitleOf(a))) = article.title
    IN [i \in DOMAIN ArticleChartsOf(id) |-> SmartChartTitle(ArticleChartsOf(id)[i])]

TimesIn(results, title) == Cardinality({i \in DOMAIN results : results[i].title = title})

\* C14: when execute returns a result every chart of the article is in
\* exactly one of processed_charts and skipped_charts (a title is in the two
\* lists as many times as the article has charts of that title), so
\* total_charts is the sum of the two counts; a chart whose processing raised is in the skipped
\* list with a reason, and the charts after it are in the lists as well.
C14_EveryChartInOneList ==
    (mode = "execute" /\ pc = "done") =>
        /\ Len(RunCharts) = Len(processed) + Len(skipped)
        /\ \A i \in DOMAIN RunCharts :
              TimesIn(processed, RunCharts[i]) + TimesIn(skipped, RunCharts[i])
                = Cardinality({j \in DOMAIN RunCharts : RunCharts[j] = RunCharts[i]})
        /\ \A i \in DOMAIN skipped : skipped[i].status = "skipped" /\ skipped[i].reason # ""
        /\ \A i \in DOMAIN processed : processed[i].status # "skipped"

\* the first chart raised and is skipped with the error as its reason, the
\* second chart was processed and the run returned its result
C14_Witness ==
    /\ mode = "execute"
    /\ pc = "done"
    /\ Len(skipped) = 1
    /\ skipped[1].reason = "Error"
    /\ skipped[1].title = RunCharts[1]
    /\ Len(processed) = 1
    /\ processed[1].title = RunCharts[2]
    /\ processed[1].chart_article_id # 0

\* C15: execute ends by an exception only when the source article cannot be
\* retrieved or the sign-in fails; the failure of any other collaborator
\* (ledger, publisher, workbook, classification) leaves the run to return
\* its result.
C15_AbortsOnlyOnSourceOrAuth ==
    (mode = "execute" /\ pc \in Aborts) => pc \in {"abort_source", "abort_auth"}

\* the articles of the publisher that are data field articles / chart articles
FieldArticles == {i \in DOMAIN intercom : intercom[i][2] = "<strong>Term:</strong>"}
ChartArticles == {i \in DOMAIN intercom : intercom[i][2] = "<span>"}

\* the rows of a sheet that carry the id of an article
RowsWithArticle(sheet) == {i \in DOMAIN sheet : sheet[i].id # 0}

\* a step of the chart loop of execute
ExecuteChartStep == mode = "execute" /\ pc = "charts" /\ todo # <<>> /\ todo' = Tail(todo)

\* C16: in execute a chart whose original name has a row in the chart sheet
\* is returned as skipped, with no create_article and no write to a sheet; a
\* data field whose name has a row in the data dictionary keeps its row and
\* gets no article: every article a chart step creates goes with a new row.
\* Rows keep their names and no other step of execute creates a chart or a
\* field article, so execute runs create at most one article per chart name
\* and per field name.
C16_DuplicatesCreateNothing ==
    [][/\ ExecuteChartStep =>
            /\ \A i \in DOMAIN data_dict : data_dict'[i] = data_dict[i]
            /\ \A i \in DOMAIN chart_library : chart_library'[i] = chart_library[i]
            /\ Cardinality(FieldArticles') - Cardinality(FieldArticles)
                  = Len(data_dict') - Len(data_dict)
            /\ Cardinality(ChartArticles') - Cardinality(ChartArticles)
                  = Len(chart_library') - Len(chart_library)
            /\ FirstRow(chart_library, Strip(Head(todo))) # 0 =>
                  /\ skipped' # skipped
                  /\ Last(skipped').status = "skipped"
                  /\ Last(skipped').original_chart_name = Head(todo)
                  /\ processed' = processed
                  /\ intercom' = intercom
                  /\ data_dict' = data_dict
                  /\ chart_library' = chart_library
       /\ (mode' = "execute" /\ ~ExecuteChartStep) =>
            /\ FieldArticles' = FieldArticles
            /\ ChartArticles' = ChartArticles
       /\ \A i \in DOMAIN data_dict :
            i \in DOMAIN data_dict' /\ data_dict'[i].orig = data_dict[i].orig
       /\ \A i \in DOMAIN chart_library :
            i \in DOMAIN chart_library' /\ chart_library'[i].orig = chart_library[i].orig]_vars

\* a second execute run met a chart and a field the first run had published:
\* the chart is skipped, the sheets hold one article for each name
C16_Witness ==
    /\ mode = "execute"
    /\ runs = 2
    /\ pc = "charts"
    /\ \E i \in DOMAIN skipped :
          /\ skipped[i].reason = "Duplicate found in Google Sheets"
          /\ \E j \in RowsWithArticle(chart_library) :
                chart_library[j].orig = skipped[i].original_chart_name
    /\ \E i \in DOMAIN processed : processed[i].fields_skipped # <<>>
    /\ Cardinality(FieldArticles) = 2
    /\ Cardinality(ChartArticles) >= 2

-----------------------------------------------------------------------------
(* The ledger writes of the propagation                                    *)

\* the sheet's rows that hold the remote id are rows under the key
RowsOfIdUnder(sheet, id, key) == \A j \in DOMAIN sheet : sheet[j].id = id => sheet[j].orig = key

\* C17: a ledger write of the propagation is made under the object's original
\* name, and the row the object's remote id and prior html came from is the
\* row of that name, for data fields and for new and skipped charts.
C17_WrittenUnderItsOwnRow ==
    [][/\ (pc = "fields" /\ data_dict' # data_dict) =>
            /\ FirstRow(data_dict', Strip(Head(work).name)) # 0
            /\ RowsOfIdUnder(data_dict, Head(work).article_id, Strip(Head(work).name))
       /\ (pc = "charts_rel" /\ chart_library' # chart_library) =>
            LET info == ChartInfo(Head(work), chart_library) IN
            /\ FirstRow(chart_library', Strip(info.original_chart_name)) # 0
            /\ RowsOfIdUnder(chart_library, info.chart_id, Strip(info.original_chart_name))]_vars

-----------------------------------------------------------------------------
(* The two inject functions: a document, an earlier injection, the call    *)

MaxEdges == 2

EdgeTitles == {<<>>, <<"K">>, <<"K", "m">>}
EdgeUrls == {"", "u1"}
EdgeSet == [title : EdgeTitles, url : EdgeUrls]

EdgeLists(n) == UNION {[1..k -> EdgeSet] : k \in 1..n}

\* a document with no divider
PlainDoc == <<"<p>", "~text", "</p>">> \o Spacer

InjectDocs == {FormatDataFieldHtml(<<"N">>), PlainDoc, FormatDataFieldPreviewHtml(<<"N">>, <<Edge(<<"K">>, "#")>>)}

InjectKinds == {"charts", "articles"}

Inject(kind, existing_html, edges) ==
    IF kind = "charts" THEN InjectRelatedChartsToFieldHtml(existing_html, edges)
    ELSE InjectRelatedArticlesToChartHtml(existing_html, edges)

\* an earlier propagation has written the document
InjPrior ==
    /\ fn.pc = "doc"
    /\ \E kind \in InjectKinds : \E edges \in {<<e>> : e \in EdgeSet} :
          fn' = [fn EXCEPT !.pc = "stored", !.h = Inject(kind, fn.h, edges)]
    /\ UNCHANGED <<wfvars, rq, ex, tr>>

\* the call, and the call on its own result
InjCall ==
    /\ fn.pc \in {"doc", "stored"}
    /\ \E kind \in InjectKinds : \E edges \in EdgeLists(MaxEdges) :
          fn' = [fn EXCEPT !.pc = "injected", !.kind = kind, !.edges = edges,
                           !.out = Inject(kind, fn.h, edges),
                           !.again = Inject(kind, Inject(kind, fn.h, edges), edges)]
    /\ UNCHANGED <<wfvars, rq, ex, tr>>

NextInject == InjPrior \/ InjCall

InitInject ==
    /\ WfIdle
    /\ rq = RqIdle(0)
    /\ ex = ExIdle
    /\ tr = TrIdle
    /\ \E h \in InjectDocs :
          fn = [pc |-> "doc", h |-> h, kind |-> "none", edges |-> <<>>,
                out |-> <<>>, again |-> <<>>]

SpecInject == InitInject /\ [][NextInject]_vars

\* C18: injecting the edges into the result of injecting them gives the
\* document of the first injection, for both inject functions.
C18_InjectTwiceIsInjectOnce == fn.pc = "injected" => fn.again = fn.out

CountAtom(h, a) == Cardinality({i \in DOMAIN h : h[i] = a})

RECURSIVE Listed(_)
\* the entries of the edges that have a title: a link when there is a url
Listed(edges) ==
    IF edges = <<>> THEN <<>>
    ELSE LET e == Head(edges) IN
         (IF e.title = <<>> THEN <<>>
          ELSE IF e.url = "" THEN <<"<li>">> \o e.title \o <<"</li>", "\n">>
          ELSE <<"<li>", "<a href=", e.url, ">">> \o e.title \o <<"</a>", "</li>", "\n">>)
         \o Listed(Tail(edges))

\* the block of the edges, with the spacer that closes it
BlockOf(edges) ==
    <<"<p>", RCMarker, "<ul>", "\n">> \o Listed(edges) \o <<"</ul>", "</p>", "\n">>
    \o Spacer \o <<"\n">>

\* s is one whole 'Related Charts' block up to its spacer
IsBlock(s) ==
    /\ Len(s) >= 8
    /\ SubSeq(s, 1, 3) = <<"<p>", RCMarker, "<ul>">>
    /\ SubSeq(s, Len(s) - 2, Len(s)) = Spacer
    /\ CountAtom(s, "<ul>") = 1
    /\ CountAtom(s, "</ul>") = 1
    /\ CountAtom(s, RCMarker) = 1

\* out is h with the block put in place of h[i+1..j]
PutAt(h, i, j, sep, block, out) ==
    out = SubSeq(h, 1, i) \o sep \o block \o SubSeq(h, j + 1, Len(h))

-----------------------------------------------------------------------------
(* The tree of a calculated field                                          *)

\* the two lines of a calculation at the top
CalcLines == <<[depth |-> 0, kind |-> "calc", key |-> 1, path |-> <<>>], [depth |-> 0, kind |-> "formula", key |-> 1, path |-> <<>>]>>

\* the nested block of a native field under the top field
NativeBlock(key) == <<[depth |-> 1, kind |-> "native", key |-> key, path |-> <<1>>], [depth |-> 1, kind |-> "values", key |-> key, path |-> <<1>>]>>

BlockIfNamed(name, formula) ==
    IF Contains(formula, Bracketed(name)) THEN NativeBlock(KeyOfNorm(Lower(name))) ELSE <<>>

\* C20 as stated: the tree of Margin = ([Revenue]-[Cost])/[Revenue] is the
\* Calculation line, the formula line, the block of Revenue, the block of Cost.
C20_RevenueThenCost ==
    (fn.pc = "formula" /\ fn.raw_formula = MarginFormula /\ tr.pc = "done") =>
        tr.lines = CalcLines \o NativeBlock(2) \o NativeBlock(4)

\* C20: the tree of a calculated field is the Calculation line, then the
\* formula line, then one nested block per distinct name of the formula (the
\* field's own name left out) in the sort order of the names: for Margin =
\* ([Revenue]-[Cost])/[Revenue] the Native block of Cost, then the Native
\* block of Revenue, each with its line of values.
C20_BlocksInNameOrder ==
    (fn.pc = "formula" /\ tr.pc = "done") =>
        /\ tr.lines = CalcLines \o BlockIfNamed(Cost, fn.raw_formula)
                                \o BlockIfNamed(Revenue, fn.raw_formula)
        /\ fn.raw_formula = MarginFormula =>
              tr.lines = CalcLines \o NativeBlock(4) \o NativeBlock(2)

\* the tree of Margin is complete
C20_Witness ==
    /\ fn.pc = "formula"
    /\ fn.raw_formula = MarginFormula
    /\ tr.pc = "done"
    /\ Len(tr.lines) = 6

-----------------------------------------------------------------------------
(* The parts of a compound expression                                      *)

\* the text when steps A to D have removed prefixes, suffixes and wrapping
Unwrapped(text) ==
    RemoveChars(StripNumberSuffix(StripRoleSuffix(StripAggPrefix(StripSqlProxy(StripTypePrefix(text)), FALSE))), {"[", "]", "\"", "(", ")"})

\* the positions of the separators, with the two ends of the text
Cuts(s) == {0, Len(s) + 1} \cup {i \in DOMAIN s : s[i] \in {"*", "/"}}

\* the trimmed segment that starts after the cut at position c
SegmentAfter(s, c) ==
    LET next == CHOOSE d \in Cuts(s) : d > c /\ \A e \in Cuts(s) : e > c => d <= e
    IN Strip(SubSeq(s, c + 1, next - 1))

\* the cuts that open a non-empty segment not seen before
FirstSegments(s) ==
    {c \in Cuts(s) \ {Len(s) + 1} :
        /\ SegmentAfter(s, c) # <<>>
        /\ \A b \in Cuts(s) : b < c => SegmentAfter(s, b) # SegmentAfter(s, c)}

SegmentList(s) ==
    [k \in 1..Cardinality(FirstSegments(s)) |-> SegmentAfter(s, Nth(FirstSegments(s), k))]

\* C21: the result of clean_tableau_field_name is the list of the non-empty
\* trimmed segments between the '*' and '/' of the expression, each distinct
\* segment once at the place of its first occurrence, joined by ', ';
\* '[INDEX] * [Capacity]' gives 'INDEX, Capacity' and '[A]/[A]' gives 'A'.
C21_SegmentsOnceInOrder ==
    (fn.pc = "cleaned" /\ fn.text # <<>> /\ fn.text # <<"N", "o", "n", "e">>) =>
        /\ fn.out = JoinComma(SegmentList(Unwrapped(fn.text)))
        /\ fn.text = IndexTimesCapacity =>
              fn.out = <<"I", "N", "D", "E", "X", ",", " ", "C", "a", "p", "a", "c", "i", "t", "y">>
        /\ fn.text = AOverA => fn.out = <<"A">>

\* '[A]/[A]' was cleaned
C21_Witness == fn.pc = "cleaned" /\ fn.text = AOverA /\ fn.out = <<"A">>

-----------------------------------------------------------------------------
(* _build_knowledge_base: documents of a few columns                       *)

MaxColumns == 2

ColumnNames == {<<>>, <<"[", "a", "b", "]">>}
ColumnCaptions == {<<>>, <<"A", " ", "b">>, <<"a", "-", "b">>}

\* no calculation, a calculation without formula, a calculation
Calculations == {<<FALSE, <<>>>>, <<TRUE, <<>>>>, <<TRUE, <<"f">>>>}

Columns ==
    {Column(n, c, r, "", k[1], k[2]) : n \in ColumnNames, c \in ColumnCaptions, r \in {"", "measure"}, k \in Calculations}

NextBuild == KbColumn \/ KbDatasource \/ KbReturn

\* the columns of a document, in two datasources
InitBuild ==
    /\ WfIdle
    /\ rq = RqIdle(0)
    /\ ex = ExIdle
    /\ tr = TrIdle
    /\ \E n \in 0..MaxColumns : \E cols \in [1..n -> Columns] : \E k \in {0, n} :
          fn = [pc |-> "build", cols |-> cols,
                rest |-> <<SubSeq(cols, 1, k), SubSeq(cols, k + 1, n)>>,
                id_to_human |-> <<>>, field_map |-> <<>>]

SpecBuild == InitBuild /\ [][NextBuild]_vars

\* the key a column is registered under: its caption, else its name,
\* without brackets, blanks and hyphens, in lower case
KeyOfColumn(col) ==
    Lower(RemoveChars(IF col.caption = <<>> THEN col.name ELSE col.caption, {"[", "]", " ", "-"}))

Named(col) == col.name # <<>> \/ col.caption # <<>>

\* C22: after _build_knowledge_base every entry of the registry is under
\* the key that is its own norm_key, the normalized caption (or name) of
\* its column; a key has one entry, that of the last column of the document
\* with this key; a column with neither name nor caption gives no entry.
C22_KeyedByNormKeyLastWins ==
    fn.pc = "built" =>
        /\ \A i \in DOMAIN fn.field_map :
              /\ fn.field_map[i].key = fn.field_map[i].val.norm_key
              /\ fn.field_map[i].key = KbNormKey(fn.field_map[i].val.raw_name)
              /\ \A j \in DOMAIN fn.field_map : fn.field_map[j].key = fn.field_map[i].key => j = i
              /\ \E c \in DOMAIN fn.cols :
                    /\ Named(fn.cols[c])
                    /\ KeyOfColumn(fn.cols[c]) = fn.field_map[i].key
                    /\ \A d \in (c + 1)..Len(fn.cols) :
                          Named(fn.cols[d]) => KeyOfColumn(fn.cols[d]) # fn.field_map[i].key
                    /\ fn.field_map[i].val.raw_name
                          = (IF fn.cols[c].caption = <<>> THEN fn.cols[c].name ELSE fn.cols[c].caption)
                    /\ fn.field_map[i].val.role
                          = (IF fn.cols[c].role = "" THEN "dimension" ELSE fn.cols[c].role)
                    /\ fn.field_map[i].val.is_calc = (fn.cols[c].calc /\ fn.cols[c].formula # <<>>)
        /\ \A c \in DOMAIN fn.cols :
              Named(fn.cols[c]) =>
                 \E i \in DOMAIN fn.field_map : fn.field_map[i].key = KeyOfColumn(fn.cols[c])
        /\ Len(fn.field_map)
              = Cardinality({KeyOfColumn(fn.cols[c]) : c \in {d \in DOMAIN fn.cols : Named(fn.cols[d])}})

\* two columns of the same key, the second one kept; a column without name
\* and caption would have left nothing
C22_Witness ==
    /\ fn.pc = "built"
    /\ Len(fn.cols) = 2
    /\ fn.cols[1].caption = <<"A", " ", "b">>
    /\ fn.cols[2].caption = <<"a", "-", "b">>
    /\ fn.cols[1].role # fn.cols[2].role
    /\ Len(fn.field_map) = 1
    /\ fn.field_map[1].val.raw_name = <<"a", "-", "b">>

-----------------------------------------------------------------------------
(* The depth of the tree                                                   *)

\* C23: _generate_context_tree expands no field at a depth above 5: a call
\* at depth 6 writes the one line '(Max depth reached)' and calls nothing,
\* so no call is ever deeper than 6, whatever the registry.
C23_NoExpansionBelowMaxDepth ==
    /\ tr.pc = "run" =>
          /\ Len(tr.stack) <= MaxDepth + 2
          /\ \A i \in DOMAIN tr.stack :
                /\ tr.stack[i].depth = i - 1
                /\ tr.stack[i].entered => tr.stack[i].depth <= MaxDepth
    /\ tr.pc \in {"run", "done"} =>
          \A i \in DOMAIN tr.lines :
             /\ tr.lines[i].depth <= MaxDepth + 1
             /\ tr.lines[i].depth = MaxDepth + 1 <=> tr.lines[i].kind = "max"
             /\ tr.lines[i].kind = "max" =>
                   \A j \in DOMAIN tr.lines : (j # i /\ tr.lines[j].depth > MaxDepth) =>
                       tr.lines[j].path # tr.lines[i].path

\* the chain of seven calculations has been cut at depth 6
C23_Witness ==
    /\ tr.pc = "done"
    /\ tr.root = 5
    /\ Last(tr.lines).kind = "max"
    /\ Last(tr.lines).depth = MaxDepth + 1
    /\ Last(tr.lines).key = 11

-----------------------------------------------------------------------------
(* The attempts of create_article and update_article                       *)

FailedBefore(k) == \A i \in 1..(k - 1) : ~rq.plan[i]

\* C24: a call through _request_with_retry makes at most max_retries
\* attempts and none after the first that succeeds, sleeps retry_delay only
\* between two attempts, and gives up only when max_retries attempts in a
\* row have failed; create_article and update_article then return status
\* error.
C24_AttemptsBoundedAndStopAtSuccess ==
    (rq.pc # "idle" /\ UsesRetry(rq.method)) =>
        /\ rq.attempt \in 1..max_retries
        /\ FailedBefore(rq.attempt)
        /\ rq.waited = retry_delay * (rq.attempt - 1)
        /\ rq.pc = "returned" =>
              /\ rq.status \in {"success", "error"}
              /\ rq.status = "success" <=> rq.plan[rq.attempt]
              /\ rq.status = "error" <=>
                    (rq.attempt = max_retries /\ FailedBefore(max_retries + 1))

\* update_article failed three times and returned status error after two waits
C24_Witness ==
    /\ rq.pc = "returned"
    /\ rq.method = "update_article"
    /\ rq.status = "error"
    /\ rq.attempt = max_retries
    /\ rq.waited = retry_delay * (max_retries - 1)

-----------------------------------------------------------------------------
(* Charts skipped as duplicates, in the propagation of execute             *)

\* the chart at the head of the loop was skipped as a duplicate and its row
\* of the chart sheet has a remote id and an html
DuplicateWithArticle ==
    /\ mode = "execute"
    /\ pc = "charts_rel"
    /\ work # <<>>
    /\ Head(work).status = "skipped"
    /\ Head(work).reason = "Duplicate found in Google Sheets"
    /\ LET i == FirstRow(chart_library, Strip(Head(work).original_chart_name))
       IN i # 0 /\ chart_library[i].id # 0 /\ chart_library[i].html # <<>>

\* C25: when execute has published an article with a chart skipped as a
\* duplicate, update_charts_with_relationships rewrites that chart: the
\* article goes into its Related Articles section, the html is pushed to the
\* publisher and the chart is counted as updated (as failed when the push
\* fails).
C25_DuplicateChartRewritten ==
    [][(DuplicateWithArticle /\ pc' = "charts_rel" /\ work' = Tail(work)) =>
          /\ updated' + failed' = updated + failed + 1
          /\ updated' = updated + 1 =>
                LET i == FirstRow(chart_library, Strip(Head(work).original_chart_name))
                IN /\ HasAtom(chart_library'[i].html, RAMarker)
                   /\ Contains(chart_library'[i].html, article.title)]_vars

-----------------------------------------------------------------------------
(* Charts and data fields in execute_update                                *)

\* a step of the chart loop of execute_update
UpdateChartStep == mode = "update" /\ pc = "charts" /\ todo # <<>> /\ todo' = Tail(todo)

\* C28: in execute_update a chart or a data field that has a row with a
\* remote id in its sheet is updated in place: no article is created for it
\* and its row keeps its remote id, so every article a chart step creates
\* goes with a new row.
C28_UpdateCreatesNoSecondArticle ==
    [][UpdateChartStep =>
          /\ \A i \in DOMAIN chart_library :
                chart_library[i].id # 0 => chart_library'[i].id = chart_library[i].id
          /\ \A i \in DOMAIN data_dict :
                data_dict[i].id # 0 => data_dict'[i].id = data_dict[i].id
          /\ Cardinality(ChartArticles') - Cardinality(ChartArticles)
                = Len(chart_library') - Len(chart_library)
          /\ Cardinality(FieldArticles') - Cardinality(FieldArticles)
                = Len(data_dict') - Len(data_dict)]_vars

-----------------------------------------------------------------------------
(* The main article over several execute runs                              *)

\* C29: execute creates no main article for a title that has a row in the
\* article sheet, so sequential execute runs on one source article create
\* at most one article for its title.
C29_NoSecondMainArticle ==
    [][(mode = "execute" /\ pc = "charts" /\ todo = <<>>
        /\ FirstRow(article_library, article.title) # 0) => intercom' = intercom]_vars

-----------------------------------------------------------------------------
(* _translate_formula on the table _build_knowledge_base makes of the      *)
(* columns [S] and [T]: each column gives its identifier with and without  *)
(* brackets                                                                *)

ColS == <<"[", "S", "]">>
ColT == <<"[", "T", "]">>

\* captions: a plain one, one that contains the identifier of its own
\* column S, one that is the identifier of the other column
CaptionN == <<"N">>
CaptionGS == <<"G", " ", "S">>
CaptionT == <<"T">>
KbCaptions == {CaptionN, CaptionGS, CaptionT}

KbFormulaTokens == {ColS, ColT, <<"S">>, <<"+">>}

\* id_to_human after the columns of the document (lines 192-202)
RECURSIVE IdToHumanOf(_, _)
IdToHumanOf(id_to_human, cols) ==
    IF cols = <<>> THEN id_to_human
    ELSE IdToHumanOf(IdToHumanPut(id_to_human, Head(cols)), Tail(cols))

InitKbTranslate ==
    /\ WfIdle
    /\ rq = RqIdle(0)
    /\ ex = ExIdle
    /\ tr = TrIdle
    /\ \E n \in 0..MaxTokens, cs \in KbCaptions, ct \in KbCaptions \cup {<<>>} :
         \E tokens \in [1..n -> KbFormulaTokens] :
            fn = [pc |-> "translate",
                  raw_formula |-> Flatten(tokens),
                  id_to_human |-> IdToHumanOf(<<>>, <<Column(ColS, cs, "", "", FALSE, <<>>),
                                                      Column(ColT, ct, "", "", FALSE, <<>>)>>),
                  out |-> <<>>]

SpecKbTranslate == InitKbTranslate /\ [][NextTranslate]_vars

\* the first item whose key starts the text, 0 when there is none
FirstMatch(s, items) ==
    IF \E i \in DOMAIN items : Len(s) >= Len(items[i].key) /\ SubSeq(s, 1, Len(items[i].key)) = items[i].key
    THEN CHOOSE i \in DOMAIN items :
            /\ Len(s) >= Len(items[i].key) /\ SubSeq(s, 1, Len(items[i].key)) = items[i].key
            /\ \A j \in 1..(i - 1) : ~(Len(s) >= Len(items[j].key) /\ SubSeq(s, 1, Len(items[j].key)) = items[j].key)
    ELSE 0

\* one pass over the text: at each place the longest identifier that starts
\* there is written as its caption, and the pass goes on behind it
RECURSIVE Simultaneous(_, _)
Simultaneous(s, items) ==
    IF s = <<>> THEN <<>>
    ELSE IF FirstMatch(s, items) # 0
         THEN items[FirstMatch(s, items)].val
              \o Simultaneous(SubSeq(s, Len(items[FirstMatch(s, items)].key) + 1, Len(s)), items)
         ELSE <<Head(s)>> \o Simultaneous(Tail(s), items)

\* C30: _translate_formula is one simultaneous substitution: its result is
\* the formula, blanks normalised, with every identifier of the table
\* written as its caption in one pass; a caption written into the text is
\* not rewritten by the replacement of a later identifier, also when the
\* caption contains an identifier of the table.
C30_InsertedCaptionsStay ==
    fn.pc = "translated" =>
        fn.out = Simultaneous(LStrip(Collapse(fn.raw_formula)), SortedByLen(<<>>, fn.id_to_human))

-----------------------------------------------------------------------------
(* services/workflow.py: _process_single_chart, steps 6 and 7 (lines       *)
(* 820-884): the field names of the analysis, the cleaned names of          *)
(* extract_field_contexts, and the display name passed with each of them    *)
(* to _process_single_data_field.  None is <<>>.                            *)

\* cleaned.split(','), each piece stripped, the empty ones left out
RECURSIVE SplitComma(_, _)
SplitComma(s, part) ==
    IF s = <<>> THEN (IF Strip(part) # <<>> THEN <<Strip(part)>> ELSE <<>>)
    ELSE IF Head(s) = ","
         THEN (IF Strip(part) # <<>> THEN <<Strip(part)>> ELSE <<>>) \o SplitComma(Tail(s), <<>>)
    ELSE SplitComma(Tail(s), Append(part, Head(s)))

\* data_field_analyzer.py lines 143-150: the clean items of one target
CleanItemsOf(t) ==
    IF t # <<>> /\ Lower(t) # NoneWord
    THEN SplitComma(CleanTableauFieldName(Strip(t)), <<>>)
    ELSE <<>>

\* clean_item.lower().replace(" ", "").replace("-", "")
CleanNormKey(clean_item) == RemoveChars(Lower(clean_item), {" ", "-"})

\* lines 151-155: the first clean item of a key stays
RECURSIVE CleanTargetsPut(_, _)
CleanTargetsPut(clean_targets_map, clean_items) ==
    IF clean_items = <<>> THEN clean_targets_map
    ELSE CleanTargetsPut(IF \E i \in DOMAIN clean_targets_map : clean_targets_map[i].key = CleanNormKey(Head(clean_items))
                         THEN clean_targets_map
                         ELSE Append(clean_targets_map, [key |-> CleanNormKey(Head(clean_items)), val |-> Head(clean_items)]),
                         Tail(clean_items))

\* _clean_target_list
RECURSIVE CleanTargetList(_, _)
CleanTargetList(clean_targets_map, target_field_list) ==
    IF target_field_list = <<>> THEN clean_targets_map
    ELSE CleanTargetList(CleanTargetsPut(clean_targets_map, CleanItemsOf(Head(target_field_list))),
                         Tail(target_field_list))

\* extract_field_contexts, lines 58-69: name_list holds the values of clean_targets_map
ContextFieldNames(target_fields) ==
    LET clean_targets_map == CleanTargetList(<<>>, target_fields) IN
    [i \in DOMAIN clean_targets_map |-> clean_targets_map[i].val]

\* workflow.py lines 853-856: the keys without brackets, blanks and hyphens, in lower case
RECURSIVE NormalizedDisplayNameMap(_, _)
NormalizedDisplayNameMap(d, display_name_map) ==
    IF display_name_map = <<>> THEN d
    ELSE NormalizedDisplayNameMap(
             DictPut(d, RemoveChars(Lower(RemoveChars(Head(display_name_map).key, {"[", "]"})), {" ", "-"}),
                     Head(display_name_map).val),
             Tail(display_name_map))

\* dict.get(k): None when the key is missing
GetOrNone(d, k) == IF \E i \in DOMAIN d : d[i].key = k THEN DictGet(d, k) ELSE <<>>

\* lines 870-874: the exact key first, then the normalized key
ResolveDisplayName(field_name, display_name_map) ==
    IF GetOrNone(display_name_map, field_name) # <<>>
    THEN GetOrNone(display_name_map, field_name)
    ELSE GetOrNone(NormalizedDisplayNameMap(<<>>, display_name_map), CleanNormKey(field_name))

\* lines 820-823: extract_field_names on the analysis
RsExtract ==
    /\ fn.pc = "analysis"
    /\ fn' = [fn EXCEPT !.pc = "extracted", !.field_extraction = ExtractFieldNames(fn.analysis)]
    /\ UNCHANGED <<wfvars, rq, ex, tr>>

\* lines 830-850: with a field extracted, the cleaned names of extract_field_contexts
RsContexts ==
    /\ fn.pc = "extracted"
    /\ fn' = IF fn.field_extraction.total_count > 0
             THEN [fn EXCEPT !.pc = "fields",
                             !.rest = ContextFieldNames(fn.field_extraction.field_names)]
             ELSE [fn EXCEPT !.pc = "done"]
    /\ UNCHANGED <<wfvars, rq, ex, tr>>

\* lines 859-884: one field of the loop, the call of _process_single_data_field
RsField ==
    /\ fn.pc = "fields"
    /\ fn.rest # <<>>
    /\ fn' = [fn EXCEPT
                !.rest = Tail(fn.rest),
                !.passed = Append(fn.passed,
                                  [field_name |-> Head(fn.rest),
                                   display_name |-> ResolveDisplayName(Head(fn.rest), fn.field_extraction.display_name_map)])]
    /\ UNCHANGED <<wfvars, rq, ex, tr>>

\* the loop is over
RsDone ==
    /\ fn.pc = "fields"
    /\ fn.rest = <<>>
    /\ fn' = [fn EXCEPT !.pc = "done"]
    /\ UNCHANGED <<wfvars, rq, ex, tr>>

NextResolve == RsExtract \/ RsContexts \/ RsField \/ RsDone

\* 'sum:[Sales]:qk' and '[Sales]'
SumSalesQk == <<"s", "u", "m", ":", "[", "S", "a", "l", "e", "s", "]", ":", "q", "k">>
BracketSales == <<"[", "S", "a", "l", "e", "s", "]">>

Mentions ==
    {DictItem(SumSalesQk, Total), DictItem(BracketSales, Profit), DictItem(NetProfit, Total),
     DictItem(Sales, <<>>), StrItem(Profit)}

InitResolve ==
    /\ WfIdle
    /\ rq = RqIdle(0)
    /\ ex = ExIdle
    /\ tr = TrIdle
    /\ \E shape \in {"dict", "list"}, items \in UNION {[1..n -> Mentions] : n \in 0..MaxItems} :
          fn = [pc |-> "analysis", analysis |-> [shape |-> shape, items |-> items],
                field_extraction |-> ExtractFieldNames([shape |-> "list", items |-> <<>>]),
                rest |-> <<>>, passed |-> <<>>]

SpecResolve == InitResolve /\ [][NextResolve]_vars

\* the mentions of the analysis that clean to this field name
MentionsOf(field_name, field_names) ==
    {i \in DOMAIN field_names :
        \E c \in Range(CleanItemsOf(field_names[i])) : CleanNormKey(c) = CleanNormKey(field_name)}

\* C27: every field name passed to _process_single_data_field that comes
\* from the cleaning of one raw mention with a display name is passed with
\* that display name, whatever prefixes and suffixes the mention carries.
C27_DisplayNameCarried ==
    \A k \in DOMAIN fn.passed :
       \A i \in DOMAIN fn.field_extraction.field_names :
          LET m == fn.field_extraction.field_names[i]
              d == GetOrNone(fn.field_extraction.display_name_map, m)
          IN (MentionsOf(fn.passed[k].field_name, fn.field_extraction.field_names) = {i} /\ d # <<>>)
                 => fn.passed[k].display_name = d

-----------------------------------------------------------------------------
(* services/workflow.py: execute_update(article_id, preview_mode=True).     *)
(* w = [dd, cl, al, ic]: the three sheets and the publisher, all of them    *)
(* only read.  A comparison has the keys of the three kinds of comparison;  *)
(* a key a kind does not have is empty.                                     *)

Comparison(type, title, field_name, original_chart_name, old_html, new_html, id, url) ==
    [status |-> "preview", article_type |-> type, article_title |-> title,
     field_name |-> field_name, original_chart_name |-> original_chart_name,
     old_html |-> old_html, new_html |-> new_html,
     intercom_article_id |-> id, intercom_url |-> url]

\* intercom_service.get_article(article_id).get('html', '')
GetArticleHtml(ic, article_id) == IF article_id \in DOMAIN ic THEN ic[article_id] ELSE <<>>

\* lines 485-491 / 1012-1018 / 1261-1267: the html of the ledger row, else
\* the body fetched from the publisher when the row has an id
OldHtml(existing, ic) ==
    IF existing.html = <<>> /\ existing.intercom_id # 0
    THEN GetArticleHtml(ic, existing.intercom_id)
    ELSE existing.html

RECURSIVE AddNew(_, _)
\* lines 1243-1246: if chart_info not in related_charts_list: append
AddNew(list, more) ==
    IF more = <<>> THEN list
    ELSE AddNew(IF Head(more) \in Range(list) THEN list ELSE Append(list, Head(more)), Tail(more))

\* format_chart_with_json_html with related articles (lines 397-410 of html_formatter.py)
FormatChartPreviewHtml(chart_name, chart_json, field_mapping, edges) ==
    FormatChartWithJsonHtml(chart_name, chart_json, field_mapping)
    \o (IF edges = <<>> THEN <<>>
        ELSE <<"<p>", RAMarker, "<ul>">> \o RelatedItems(edges, <<>>) \o <<"</ul>", "</p>">>
             \o Spacer)

\* _process_single_data_field(check_duplicates=False, preview_mode=True);
\* ok: the analysis of the field succeeds
PreviewSingleDataField(w, field_name, chart_title, ok) ==
    LET existing_data == LookupArticleByTitle(w.dd, field_name)
        human_name == RewriteFieldName(field_name)
        related_charts_list ==
            AddNew(<<[title |-> chart_title, url |-> "#"]>>,
                   GetRelatedChartsForField(w.cl, field_name, TRUE).related)
    IN IF ~ok
       THEN [status |-> "skipped", field_name |-> field_name, human_name |-> field_name,
             intercom_url |-> ""]
       ELSE Comparison("data_field", human_name, field_name, <<>>,
                       OldHtml(existing_data, w.ic),
                       FormatDataFieldPreviewHtml(human_name, related_charts_list),
                       existing_data.intercom_id, "")

\* the chart comparison of lines 1003-1035 and 1071-1098
ChartComparison(w, original_chart_name, chart_html) ==
    LET existing_chart_data == LookupArticleByTitle(w.cl, original_chart_name) IN
    Comparison("chart", SmartChartTitle(original_chart_name), <<>>, original_chart_name,
               OldHtml(existing_chart_data, w.ic), chart_html,
               existing_chart_data.intercom_id,
               IF existing_chart_data.exists THEN existing_chart_data.intercom_url ELSE "#")

\* as PreviewSingleChart, but the chart is published as an update publishes it
PreviewSingleChartPublishes(w, original_chart_name, flt, bad) ==
    LET r == ProcessSingleChart([dd |-> w.dd, cl |-> w.cl, ic |-> w.ic], original_chart_name, FALSE, flt, bad) IN
    [w |-> [dd |-> r.w.dd, cl |-> r.w.cl, al |-> w.al, ic |-> r.w.ic],
     res |-> IF r.res.status = "skipped" THEN r.res
             ELSE [status |-> "preview",
                   comparisons |-> <<ChartComparison(w, original_chart_name, r.res.chart_html)>>]]

\* _process_single_chart(check_duplicates=False, preview_mode=True); flt and
\* bad as in ProcessSingleChart
PreviewSingleChart(w, original_chart_name, flt, bad) ==
    LET title == SmartChartTitle(original_chart_name)
        names == IF "context" \in flt THEN <<>> ELSE ChartFieldsOf(original_chart_name)
        results == [i \in DOMAIN names |-> PreviewSingleDataField(w, names[i], title, i \notin bad)]
        processed_fields == SelectStatus(results, "preview")
        skipped_fields == SelectStatus(results, "skipped")
        field_mapping == MappingAddSkipped(MappingOfProcessed(w.dd, processed_fields), skipped_fields)
        chart_html ==
            IF results = <<>> THEN <<>>
            ELSE FormatChartPreviewHtml(title, ChartJsonOf(ChartFieldsOf(original_chart_name)),
                                        field_mapping,
                                        GetRelatedArticlesForChart(w.al, title, TRUE).related)
    IN IF "workbook" \in flt
       THEN [w |-> w, res |-> SkippedChart(title, original_chart_name, FALSE)]
       ELSE [w |-> w,
             res |-> [status |-> "preview",
                      comparisons |-> processed_fields
                                      \o <<ChartComparison(w, original_chart_name, chart_html)>>]]

\* execute_update, lines 470-520, preview_mode=True: the article must be in
\* the article sheet; its old html is read
StartPreview ==
    /\ pc = "idle"
    /\ runs < MaxRuns
    /\ \E id \in ArticleIds :
        LET article_title == Strip(BeforeParen(ArticleTitleOf(id)))
            lookup_result == LookupArticleByTitle(article_library, article_title)
        IN /\ article' = [title |-> article_title, id |-> lookup_result.intercom_id,
                          old_html |-> OldHtml(lookup_result, intercom)]
           /\ IF lookup_result.exists
              THEN todo' = ArticleChartsOf(id) /\ pc' = "charts"
              ELSE todo' = <<>> /\ pc' = "aborted"
    /\ mode' = "preview"
    /\ runs' = runs + 1
    /\ RunLocals
    /\ UNCHANGED <<faults, sheets, intercom, uses, others>>

\* lines 522-547, preview_mode=True: one chart of the loop; a skipped chart
\* goes to skipped_charts, the comparisons of a preview to all_comparisons
PreviewChart ==
    /\ pc = "charts"
    /\ todo # <<>>
    /\ mode = "preview"
    /\ \E flt \in SUBSET {"workbook", "context"}, bad \in SUBSET DOMAIN ChartFieldsOf(Head(todo)) :
        /\ faults + Cardinality(flt) + Cardinality(bad) <= MaxFaults
        /\ faults' = faults + Cardinality(flt) + Cardinality(bad)
        /\ LET r == PreviewSingleChart([dd |-> data_dict, cl |-> chart_library,
                                        al |-> article_library, ic |-> intercom],
                                       Head(todo), flt, bad)
           IN /\ data_dict' = r.w.dd
              /\ chart_library' = r.w.cl
              /\ article_library' = r.w.al
              /\ intercom' = r.w.ic
              /\ IF r.res.status = "skipped"
                 THEN skipped' = Append(skipped, r.res) /\ all_comparisons' = all_comparisons
                 ELSE skipped' = skipped /\ all_comparisons' = all_comparisons \o r.res.comparisons
    /\ todo' = Tail(todo)
    /\ UNCHANGED <<pc, mode, runs, article, processed, article_intercom_url, relvars, uses, others>>

\* lines 549-561: charts_for_article of a preview, from the chart comparisons
PreviewChartsForArticle ==
    LET charts == SelectSeq(all_comparisons, LAMBDA c : c.article_type = "chart") IN
    [i \in DOMAIN charts |-> [title |-> charts[i].article_title, intercom_url |-> charts[i].intercom_url]]

\* lines 573-606: the comparison of the main article is added and the run
\* returns status 'preview' with all_comparisons
PreviewMainArticle ==
    /\ pc = "charts"
    /\ todo = <<>>
    /\ mode = "preview"
    /\ all_comparisons' =
          Append(all_comparisons,
                 Comparison("main_article", article.title, <<>>, <<>>, article.old_html,
                            FormatArticleWithChartsHtml(PreviewChartsForArticle), article.id, ""))
    /\ pc' = "done"
    /\ UNCHANGED <<mode, runs, faults, article, todo, processed, skipped, article_intercom_url,
                   relvars, sheets, intercom, uses, others>>

\* execute runs fill the ledger and the publisher, previews read them
NextPreview ==
    \/ StartExecute
    \/ FailExecute
    \/ ProcessChart
    \/ PublishArticle
    \/ BuildF2C
    \/ BeginUpdateFields
    \/ FieldLookupRaises
    \/ UpdateField
    \/ EndUpdateFields
    \/ BuildC2A
    \/ BeginUpdateCharts
    \/ UpdateChart
    \/ ChartLookupRaises
    \/ EndUpdateCharts
    \/ Return
    \/ StartPreview
    \/ PreviewChart
    \/ PreviewMainArticle

SpecPreview == Init /\ [][NextPreview]_vars

\* a step of a preview run, its start and its return included
PreviewStep == mode = "preview" \/ mode' = "preview"

RECURSIVE ExpectedComparisons(_)
\* kind and name of the comparisons of a run in which nothing fails: per
\* chart its fields, then the chart; the main article comes last
ExpectedComparisons(charts) ==
    IF charts = <<>> THEN <<>>
    ELSE [i \in DOMAIN ChartFieldsOf(Head(charts)) |-> <<"data_field", ChartFieldsOf(Head(charts))[i]>>]
         \o <<<<"chart", Head(charts)>>>>
         \o ExpectedComparisons(Tail(charts))

\* the source charts of the article of the run
RunOriginalCharts ==
    ArticleChartsOf(CHOOSE a \in ArticleIds : Strip(BeforeParen(ArticleTitleOf(a))) = article.title)

\* what a preview returns: every comparison has status 'preview' and the
\* old html of its ledger row; the main article is the last one
PreviewReturned ==
    (mode = "preview" /\ pc = "done") =>
        LET n == Len(all_comparisons)
            charts == SelectSeq(all_comparisons, LAMBDA c : c.article_type = "chart")
        IN /\ n >= 1
           /\ \A i \in 1..n : all_comparisons[i].status = "preview"
           /\ all_comparisons[n].article_type = "main_article"
           /\ all_comparisons[n].article_title = article.title
           /\ all_comparisons[n].old_html =
                 OldHtml(LookupArticleByTitle(article_library, article.title), intercom)
           /\ all_comparisons[n].new_html =
                 FormatArticleWithChartsHtml(
                     [i \in DOMAIN charts |-> [title |-> charts[i].article_title,
                                               intercom_url |-> charts[i].intercom_url]])
           /\ Len(charts) + Len(skipped) = Len(RunOriginalCharts)
           /\ \A i \in 1..(n - 1) :
                 LET c == all_comparisons[i] IN
                 \/ /\ c.article_type = "chart"
                    /\ c.article_title = SmartChartTitle(c.original_chart_name)
                    /\ c.old_html = OldHtml(LookupArticleByTitle(chart_library, c.original_chart_name), intercom)
                    /\ c.new_html # <<>> => Contains(c.new_html, c.article_title)
                    /\ faults = 0 => c.new_html # <<>>
                 \/ /\ c.article_type = "data_field"
                    /\ c.old_html = OldHtml(LookupArticleByTitle(data_dict, c.field_name), intercom)
                    /\ Contains(c.new_html, c.article_title)
           /\ faults = 0 =>
                 [i \in 1..(n - 1) |->
                     <<all_comparisons[i].article_type,
                       IF all_comparisons[i].article_type = "chart"
                       THEN all_comparisons[i].original_chart_name
                       ELSE all_comparisons[i].field_name>>]
                 = ExpectedComparisons(RunOriginalCharts)

\* C26: a preview run (execute_update with preview_mode=True) writes
\* nothing: no step of it, from its start to its return, changes the
\* publisher or one of the three ledger sheets.  When it returns, its status
\* is 'preview' and its comparisons hold the old and the new HTML of the
\* main article and of each chart and each data field it has regenerated
\* (all of them in a run in which nothing fails); a chart that is skipped
\* has no comparison, and a run that raises returns nothing.
C26_PreviewWritesNothing ==
    /\ []PreviewReturned
    /\ [][PreviewStep => (intercom' = intercom /\ sheets' = sheets)]_vars

\* a preview of an article published before has returned: the main
\* article, a chart and a data field come with the html of their rows
C26_Witness ==
    /\ mode = "preview"
    /\ pc = "done"
    /\ faults = 0
    /\ all_comparisons[Len(all_comparisons)].old_html # <<>>
    /\ \E i, j \in DOMAIN all_comparisons :
          /\ all_comparisons[i].article_type = "chart"
          /\ all_comparisons[i].old_html # <<>>
          /\ all_comparisons[i].new_html # <<>>
          /\ all_comparisons[j].article_type = "data_field"
          /\ all_comparisons[j].old_html # <<>>
          /\ all_comparisons[j].new_html # all_comparisons[j].old_html

=============================================================================
